---- MODULE Spec2Model ----
(***************************************************************************)
(* Model of eqidis-sat-sync: the fiscal-document (CFDI) acquisition and    *)
(* reconciliation pipeline.                                                *)
(*                                                                         *)
(*   Spec      the document state machine: CfdiDocument.update_state and   *)
(*             the three verification workflows (daily sweep, operator     *)
(*             single-document check, operator per-request bulk check),    *)
(*             one verification at a time, over the cfdi / state-check /   *)
(*             audit tables.                                               *)
(*   SpecAcq   the acquisition pipeline: submit, poll, fetch and parse     *)
(*             tasks run by two concurrent workers against the tax         *)
(*             authority, the broker and the request / package / cfdi      *)
(*             tables.                                                     *)
(*   SpecOdoo  reconciliation: consecutive calls of sync_cfdi_to_odoo      *)
(*             against the external accounting database.                   *)
(*   SpecPoll, SpecParse, SpecFetch, SpecStatus                            *)
(*             stages of the acquisition pipeline on their own: poll runs  *)
(*             that overlap, requests of several packages parsed at the    *)
(*             same time, fetches that keep failing, an authority that     *)
(*             answers in each of its encodings.                           *)
(*   SpecCert  credential uploads by two concurrent requests, the passing  *)
(*             of time, and the construction of SATClient.                 *)
(*   SpecReset the document state machine together with the tenant reset.  *)
(*   SpecVerify, SpecCheck                                                 *)
(*             verifications that overlap on two workers; the operator's   *)
(*             single-document check next to a tenant reset.               *)
(*   SpecSweep the revalidation sweep on the days celery beat runs it.     *)
(*   SpecSave  CfdiDocument.save and its payment-rule validation.          *)
(*   SpecBatch the batch reconciliation task over sync_cfdi_to_odoo.       *)
(*   SpecXml   CFDIParser.parse over a sequence of payloads.               *)
(*   SpecSubmit, SpecArchive                                               *)
(*             submissions the authority does not accept; package answers  *)
(*             that are empty.                                             *)
(*   SpecWeekly                                                            *)
(*             one week of the beat entry of the weekly acquisition.       *)
(*   SpecLive  one request followed for ever under fair scheduling of the  *)
(*             poll and the worker tasks.                                  *)
(*   SpecOverlap                                                           *)
(*             the sweep on one worker, the operator's checks on another.  *)
(*   SpecTenant                                                            *)
(*             two tenants: propagating a status change to the external    *)
(*             system.                                                     *)
(*   SpecRuns  batch reconciliation run again and again over more          *)
(*             documents than one run takes.                               *)
(*   SpecRetry the retrying decorator of the XML-RPC client.               *)
(*                                                                         *)
(* Database rows are records; a table is a sequence indexed by primary     *)
(* key.  A worker that has loaded a row holds its own in-memory copy, as   *)
(* a Django model instance does; a save() writes that copy back.           *)
(***************************************************************************)
EXTENDS Integers, Sequences, FiniteSets, Bags, TLC

VARIABLES
    cfdiDocs,      \* table CfdiDocument: pk -> row
    stateChecks,   \* table CfdiStateCheck: pk -> row (append-only ledger)
    auditLog,      \* table AuditLog
    clock,         \* timezone.now(), a logical timestamp; a new state check advances it
    vw,            \* verification workers: worker -> frame of the running call
    requests,      \* table CfdiDownloadRequest: pk -> row
    packages,      \* table SatDownloadPackage: pk -> row
    queue,         \* the celery queue: a bag of task invocations
    sat,           \* the authority: what it holds for each submitted request
    tw,            \* celery workers: worker -> frame of the running task
    hist,          \* counts of what the tasks did (results they returned)
    odoo,          \* the external accounting system's records
    syncLogs,      \* table OdooSyncLog
    connections,   \* table OdooConnection
    ow,            \* reconciliation workers: worker -> frame of the running call
    certificates,  \* table CfdiCertificate: pk -> row
    cw,            \* certificate uploads: worker -> frame of the running request
    contacts,      \* the calls SATClient made to the authority, and with which credential
    NS,            \* CFDIParser.NS, the class's namespace table: what 'cfdi' is bound to
    parses,        \* the calls of CFDIParser.parse made in the process, with their results
    settings,      \* table EmpresaSyncSettings: pk -> row
    rpc            \* calls through retry_on_error: caller -> frame of the running wrapper

smVars == <<cfdiDocs, stateChecks, auditLog, clock, vw>>
acqVars == <<requests, packages, queue, sat, tw, hist>>
odooVars == <<odoo, syncLogs, connections, ow>>
certVars == <<certificates, cw, contacts>>
parserVars == <<NS, parses>>

vars == <<smVars, acqVars, odooVars, certVars, parserVars, settings, rpc>>

\* The variables the document state machine never writes.
notSM == <<acqVars, odooVars, certVars, parserVars, settings, rpc>>

\* No credential has been uploaded and none is in use.
NoCertificates == certificates = <<>> /\ cw = <<>> /\ contacts = {}

\* The process has parsed nothing: the class's namespace table is as defined.
NoParses == NS = "http://www.sat.gob.mx/cfd/4" /\ parses = <<>>

\* No tenant has sync settings.
NoSettings == settings = <<>>

\* No call through the retrying decorator is running.
NoCalls == rpc = <<>>

(***************************************************************************)
(* Bounds of the model.                                                    *)
(***************************************************************************)
MaxChecks == 3     \* verifications started over a run of the model

\* web / celery workers that can run a verification
Workers == {1, 2}

(***************************************************************************)
(* Values.                                                                 *)
(***************************************************************************)
None == "None"

\* CfdiDocument.ESTADO_SAT_CHOICES
ESTADO_SAT_CHOICES == {"Vigente", "Cancelado", "No Encontrado"}

\* What SATClient.validar_estado_cfdi returns: 'estado', 'es_cancelable',
\* 'estado_cancelacion', each None when the authority's answer lacks it.
SatAnswers ==
    { [estado |-> "Vigente", es_cancelable |-> "Cancelable sin aceptacion", estado_cancelacion |-> None],
      [estado |-> "Cancelado", es_cancelable |-> None, estado_cancelacion |-> "Cancelado sin aceptacion"],
      [estado |-> "No Encontrado", es_cancelable |-> None, estado_cancelacion |-> None],
      [estado |-> None, es_cancelable |-> None, estado_cancelacion |-> None] }

NoAnswer == [estado |-> None, es_cancelable |-> None, estado_cancelacion |-> None]

\* Python's `x or y`
Or(x, y) == IF x = None THEN y ELSE x

(***************************************************************************)
(* Tables.                                                                 *)
(***************************************************************************)
\* A CfdiDocument row as CFDIParser.to_model builds it and parse_and_save
\* stores it: estado_sat 'Vigente', no cancellation data, no state check.
NewCfdiDocument(company, uuid, request, edad) ==
    [ company |-> company, uuid |-> uuid, request |-> request, edad |-> edad,
      estado_sat |-> "Vigente", estado_cancelacion |-> None,
      fecha_cancelacion |-> 0, current_state_check |-> 0 ]

\* The model instance a query returns: a copy of the row, with its pk.
Instance(d) ==
    [ id |-> d,
      estado_sat |-> cfdiDocs[d].estado_sat,
      estado_cancelacion |-> cfdiDocs[d].estado_cancelacion,
      fecha_cancelacion |-> cfdiDocs[d].fecha_cancelacion,
      current_state_check |-> cfdiDocs[d].current_state_check ]

NoInstance ==
    [ id |-> 0, estado_sat |-> None, estado_cancelacion |-> None,
      fecha_cancelacion |-> 0, current_state_check |-> 0 ]

\* CfdiStateCheck.objects.create(...)
NewStateCheck(document, estado_anterior, estado_sat, estado_cancelacion, es_cambio, source, checked_at) ==
    [ document |-> document, estado_anterior |-> estado_anterior,
      estado_sat |-> estado_sat, estado_cancelacion |-> estado_cancelacion,
      es_cambio |-> es_cambio, source |-> source, checked_at |-> checked_at ]

\* AuditLog.log(entity_type='CfdiDocument', entity_id=uuid, action=..., ...)
NewAuditLog(empresa, entity_id, action, before, after, notes) ==
    [ empresa |-> empresa, entity_type |-> "CfdiDocument", entity_id |-> entity_id,
      action |-> action, payload_before |-> before, payload_after |-> after,
      notes |-> notes ]

\* Model.save(): every field of the instance is written to the row.
SaveAll(docs, obj) ==
    [docs EXCEPT ![obj.id] =
        [@ EXCEPT !.estado_sat = obj.estado_sat,
                  !.estado_cancelacion = obj.estado_cancelacion,
                  !.fecha_cancelacion = obj.fecha_cancelacion,
                  !.current_state_check = obj.current_state_check]]

\* Model.save(update_fields=fields): only the named fields are written.
SaveFields(docs, obj, fields) ==
    [docs EXCEPT ![obj.id] =
        [@ EXCEPT !.estado_sat =
                      IF "estado_sat" \in fields THEN obj.estado_sat ELSE @,
                  !.estado_cancelacion =
                      IF "estado_cancelacion" \in fields THEN obj.estado_cancelacion ELSE @,
                  !.fecha_cancelacion =
                      IF "fecha_cancelacion" \in fields THEN obj.fecha_cancelacion ELSE @]]

\* The state-check rows of document d, oldest first (pks ascend with time).
ChecksOf(d) == SelectSeq([i \in 1..Len(stateChecks) |-> i], LAMBDA i : stateChecks[i].document = d)

LatestCheck(d) == ChecksOf(d)[Len(ChecksOf(d))]

(***************************************************************************)
(* Worker frames: the locals of the verification call a worker is running. *)
(***************************************************************************)
IdleFrame ==
    [ pc |-> "idle", kind |-> "none", cfdi |-> NoInstance, todo |-> <<>>,
      empresas |-> <<>>, tier |-> "none", now |-> 0, result |-> NoAnswer,
      nuevo_estado_sat |-> None, nuevo_estado_cancelacion |-> None,
      source |-> None, estado_anterior |-> None, es_cambio |-> FALSE,
      state_check |-> 0, made |-> 0, logged |-> 0, response |-> None,
      \* what the tables held when the verification began
      before |-> NoInstance, rows_before |-> 0, audits_before |-> 0 ]

\* Verifications started so far: rows written, plus calls that have their
\* answer and have not yet written their row.
Started ==
    Len(stateChecks)
    + Cardinality({w \in Workers : vw[w].pc \in {"us_create", "sv_create", "bv_create", "sw_create"}})

CanStart == Started < MaxChecks

(***************************************************************************)
(* CfdiDocument.update_state(nuevo_estado_sat, nuevo_estado_cancelacion,   *)
(* source): the caller holds an instance of document d.                    *)
(***************************************************************************)
\* es_cambio = (estado_anterior != nuevo_estado_sat)
\* The comparison made after the cache has been overwritten.
EsCambio_AfterAssign(estado_anterior, nuevo_estado_sat) == nuevo_estado_sat # nuevo_estado_sat

EsCambio(estado_anterior, nuevo_estado_sat) == estado_anterior # nuevo_estado_sat

update_state_call(w, d, nuevo, canc, source) ==
    /\ vw[w].pc = "idle"
    /\ CanStart
    /\ vw' = [vw EXCEPT ![w] =
                [IdleFrame EXCEPT !.pc = "us_create", !.kind = "update_state",
                                  !.cfdi = Instance(d),
                                  !.nuevo_estado_sat = nuevo,
                                  !.nuevo_estado_cancelacion = canc,
                                  !.source = source,
                                  !.before = Instance(d),
                                  !.rows_before = Len(ChecksOf(d)),
                                  !.audits_before = Len(auditLog)]]
    /\ UNCHANGED <<cfdiDocs, stateChecks, auditLog, clock, notSM>>

\* 1. CfdiStateCheck.objects.create(...); then the instance's fields are set.
update_state_create(w) ==
    LET f == vw[w]
        estado_anterior == f.cfdi.estado_sat
        es_cambio == EsCambio(estado_anterior, f.nuevo_estado_sat)
        pk == Len(stateChecks) + 1
        checked_at == clock + 1
    IN  /\ f.pc = "us_create"
        /\ stateChecks' = Append(stateChecks,
               NewStateCheck(f.cfdi.id, estado_anterior, f.nuevo_estado_sat,
                             f.nuevo_estado_cancelacion, es_cambio, f.source, checked_at))
        /\ clock' = checked_at
        /\ vw' = [vw EXCEPT ![w] =
               [f EXCEPT !.pc = "us_save",
                         !.estado_anterior = estado_anterior,
                         !.es_cambio = es_cambio,
                         !.state_check = pk,
                         !.made = @ + 1,
                         !.cfdi = [f.cfdi EXCEPT
                             !.current_state_check = pk,
                             !.estado_sat = f.nuevo_estado_sat,
                             !.estado_cancelacion = f.nuevo_estado_cancelacion,
                             !.fecha_cancelacion =
                                 IF f.nuevo_estado_sat = "Cancelado" /\ @ = 0
                                 THEN checked_at ELSE @]]]
        /\ UNCHANGED <<cfdiDocs, auditLog, notSM>>

\* 2. self.save()
\* update_state without its audit branch.
update_state_save_silent(w) ==
    LET f == vw[w]
    IN  /\ f.pc = "us_save"
        /\ cfdiDocs' = SaveAll(cfdiDocs, f.cfdi)
        /\ vw' = [vw EXCEPT ![w].pc = "done", ![w].response = "ok"]
        /\ UNCHANGED <<stateChecks, auditLog, clock, notSM>>

update_state_save(w) ==
    LET f == vw[w]
    IN  /\ f.pc = "us_save"
        /\ cfdiDocs' = SaveAll(cfdiDocs, f.cfdi)
        /\ vw' = [vw EXCEPT ![w].pc = IF f.es_cambio THEN "us_audit" ELSE "done",
                            ![w].response = IF f.es_cambio THEN None ELSE "ok"]
        /\ UNCHANGED <<stateChecks, auditLog, clock, notSM>>

\* 3. if es_cambio: AuditLog.log(action='status_change', ...)
update_state_audit(w) ==
    LET f == vw[w]
    IN  /\ f.pc = "us_audit"
        /\ auditLog' = Append(auditLog,
               NewAuditLog(cfdiDocs[f.cfdi.id].company, f.cfdi.id, "status_change",
                           f.estado_anterior, f.nuevo_estado_sat, f.source))
        /\ vw' = [vw EXCEPT ![w].pc = "done", ![w].logged = @ + 1, ![w].response = "ok"]
        /\ UNCHANGED <<cfdiDocs, stateChecks, clock, notSM>>

\* The call has returned and its frame is dropped.
Return(w) ==
    /\ vw[w].pc = "done"
    /\ vw' = [vw EXCEPT ![w] = IdleFrame]
    /\ UNCHANGED <<cfdiDocs, stateChecks, auditLog, clock, notSM>>

(***************************************************************************)
(* The verification workflows.  Each asks the authority for the document's *)
(* status (SATClient.validar_estado_cfdi), records a CfdiStateCheck and    *)
(* writes the document's cache fields.                                     *)
(***************************************************************************)
\* estado_sat=estado_nuevo or 'Desconocido'
RowEstado(estado_nuevo) == Or(estado_nuevo, "Desconocido")

\* The frame of a workflow that now verifies instance obj with answer ans.
Verifying(f, pc, obj, ans) ==
    [f EXCEPT !.pc = pc, !.cfdi = obj, !.result = ans,
              !.estado_anterior = obj.estado_sat,
              !.es_cambio = EsCambio(obj.estado_sat, ans.estado),
              !.state_check = 0, !.made = 0, !.logged = 0, !.response = None,
              !.before = obj, !.rows_before = Len(ChecksOf(obj.id)),
              !.audits_before = Len(auditLog)]

\* CfdiStateCheck.objects.create(document=cfdi, estado_anterior=..., ...,
\* source='uuid_check') as the three workflows write it.
CheckRow(f, estado_cancelacion) ==
    NewStateCheck(f.cfdi.id, f.estado_anterior, RowEstado(f.result.estado),
                  estado_cancelacion, f.es_cambio, "uuid_check", clock + 1)

\* The views' cache update: the instance after
\*   if estado_nuevo: cfdi.estado_sat = estado_nuevo
\*   if es_cancelable: cfdi.estado_cancelacion = es_cancelable
\*   if estado_nuevo == 'Cancelado': cfdi.fecha_cancelacion = timezone.now()
ViewUpdate(obj, ans, now) ==
    [obj EXCEPT !.estado_sat = IF ans.estado # None THEN ans.estado ELSE @,
                !.estado_cancelacion = IF ans.es_cancelable # None THEN ans.es_cancelable ELSE @,
                !.fecha_cancelacion = IF ans.estado = "Cancelado" THEN now ELSE @]

ViewFields == {"estado_sat", "estado_cancelacion", "fecha_cancelacion"}

\* -------- ValidarEstadoCfdiView.post: one document, on demand --------
ValidarEstadoCfdiView_call(w, d, ans) ==
    /\ vw[w].pc = "idle"
    /\ CanStart
    /\ vw' = [vw EXCEPT ![w] =
           Verifying([IdleFrame EXCEPT !.kind = "single"], "sv_create", Instance(d), ans)]
    /\ UNCHANGED <<cfdiDocs, stateChecks, auditLog, clock, notSM>>

\* validar_estado_cfdi raised SATClientError: an error badge, status 500.
ValidarEstadoCfdiView_error(w, d) ==
    /\ vw[w].pc = "idle"
    /\ vw' = [vw EXCEPT ![w] =
           [IdleFrame EXCEPT !.kind = "single", !.pc = "done",
                             !.cfdi = Instance(d), !.response = "error"]]
    /\ UNCHANGED <<cfdiDocs, stateChecks, auditLog, clock, notSM>>

ValidarEstadoCfdiView_create(w) ==
    LET f == vw[w]
    IN  /\ f.pc = "sv_create"
        /\ stateChecks' = Append(stateChecks, CheckRow(f, f.result.es_cancelable))
        /\ clock' = clock + 1
        /\ vw' = [vw EXCEPT ![w].pc = "sv_save",
                            ![w].state_check = Len(stateChecks) + 1,
                            ![w].made = @ + 1]
        /\ UNCHANGED <<cfdiDocs, auditLog, notSM>>

ValidarEstadoCfdiView_save(w) ==
    LET f == vw[w]
        obj == ViewUpdate(f.cfdi, f.result, clock)
    IN  /\ f.pc = "sv_save"
        /\ cfdiDocs' = SaveFields(cfdiDocs, obj, ViewFields)
        /\ vw' = [vw EXCEPT ![w].pc = "done", ![w].cfdi = obj, ![w].response = "ok"]
        /\ UNCHANGED <<stateChecks, auditLog, clock, notSM>>

\* -------- ValidarTodosCfdiView.post: every document of one request --------
\* A queryset's rows in the order of CfdiDocument.Meta.ordering,
\* ['-fecha_emision']: newest first (ties by pk).
RECURSIVE NewestFirst(_)
NewestFirst(S) ==
    IF S = {} THEN <<>>
    ELSE LET d == CHOOSE x \in S :
                    \A y \in S : \/ cfdiDocs[x].edad < cfdiDocs[y].edad
                                 \/ cfdiDocs[x].edad = cfdiDocs[y].edad /\ x <= y
         IN  <<d>> \o NewestFirst(S \ {d})

Instances(ids) == [i \in 1..Len(ids) |-> Instance(ids[i])]

\* CfdiDocument.objects.filter(download_package__request=solicitud)
DocsOfRequest(r) == {d \in DOMAIN cfdiDocs : cfdiDocs[d].request = r}

Requests == {cfdiDocs[d].request : d \in DOMAIN cfdiDocs} \ {0}

ValidarTodosCfdiView_load(w, r) ==
    /\ vw[w].pc = "idle"
    /\ CanStart
    /\ vw' = [vw EXCEPT ![w] =
           [IdleFrame EXCEPT !.kind = "bulk", !.pc = "bv_next",
                             !.todo = Instances(NewestFirst(DocsOfRequest(r)))]]
    /\ UNCHANGED <<cfdiDocs, stateChecks, auditLog, clock, notSM>>

ValidarTodosCfdiView_call(w, ans) ==
    LET f == vw[w]
    IN  /\ f.pc = "bv_next"
        /\ f.todo # <<>>
        /\ CanStart
        /\ vw' = [vw EXCEPT ![w] =
               Verifying([f EXCEPT !.todo = Tail(f.todo)], "bv_create", Head(f.todo), ans)]
        /\ UNCHANGED <<cfdiDocs, stateChecks, auditLog, clock, notSM>>

\* except SATClientError: errors += 1, on to the next document
ValidarTodosCfdiView_error(w) ==
    LET f == vw[w]
    IN  /\ f.pc = "bv_next"
        /\ f.todo # <<>>
        /\ vw' = [vw EXCEPT ![w].todo = Tail(f.todo)]
        /\ UNCHANGED <<cfdiDocs, stateChecks, auditLog, clock, notSM>>

ValidarTodosCfdiView_create(w) ==
    LET f == vw[w]
    IN  /\ f.pc = "bv_create"
        /\ stateChecks' = Append(stateChecks, CheckRow(f, f.result.es_cancelable))
        /\ clock' = clock + 1
        /\ vw' = [vw EXCEPT ![w].pc = "bv_save",
                            ![w].state_check = Len(stateChecks) + 1,
                            ![w].made = @ + 1]
        /\ UNCHANGED <<cfdiDocs, auditLog, notSM>>

ValidarTodosCfdiView_save(w) ==
    LET f == vw[w]
        obj == ViewUpdate(f.cfdi, f.result, clock)
    IN  /\ f.pc = "bv_save"
        /\ cfdiDocs' = SaveFields(cfdiDocs, obj, ViewFields)
        /\ vw' = [vw EXCEPT ![w].pc = "bv_next", ![w].cfdi = obj, ![w].response = "ok"]
        /\ UNCHANGED <<stateChecks, auditLog, clock, notSM>>

ValidarTodosCfdiView_return(w) ==
    /\ vw[w].pc = "bv_next"
    /\ vw[w].todo = <<>>
    /\ vw' = [vw EXCEPT ![w].pc = "done", ![w].response = "ok"]
    /\ UNCHANGED <<cfdiDocs, stateChecks, auditLog, clock, notSM>>

\* -------- validar_estado_cfdis_pendientes: the revalidation sweep --------
DAILY_DAYS == 30       \* month_ago = today - timedelta(days=30)
WEEKLY_DAYS == 90      \* quarter_ago = today - timedelta(days=90)
YEARLY_DAYS == 365     \* year_ago = today - timedelta(days=365)
SWEEP_BATCH == 100     \* cfdis_to_validate.order_by('-fecha_emision')[:100]

\* The day the task runs on: the 1st of a month, else a Monday, else any day.
SweepDays == {"monthly", "weekly", "daily"}

\* The sweep with the daily tier on every day.
TierLimit_daily(day) == DAILY_DAYS

\* How old (in days) a document may be to be re-checked on such a day.
TierLimit(day) ==
    CASE day = "monthly" -> YEARLY_DAYS
      [] day = "weekly" -> WEEKLY_DAYS
      [] OTHER -> DAILY_DAYS

\* base_qs narrowed for the day: Vigente documents of the company, young enough.
SweepCandidates(empresa, day) ==
    {d \in DOMAIN cfdiDocs :
        /\ cfdiDocs[d].company = empresa
        /\ cfdiDocs[d].estado_sat = "Vigente"
        /\ cfdiDocs[d].edad <= YEARLY_DAYS
        /\ cfdiDocs[d].edad <= TierLimit(day)}

Take(seq, n) == SubSeq(seq, 1, IF Len(seq) < n THEN Len(seq) ELSE n)

\* Empresa.objects.filter(is_active=True), each with an active FIEL
Empresas == {1, 2}

RECURSIVE SeqOfSet(_)
SeqOfSet(S) ==
    IF S = {} THEN <<>>
    ELSE LET x == CHOOSE y \in S : \A z \in S : y <= z
         IN  <<x>> \o SeqOfSet(S \ {x})

validar_estado_cfdis_pendientes_start(w, day) ==
    /\ vw[w].pc = "idle"
    /\ CanStart
    /\ vw' = [vw EXCEPT ![w] =
           [IdleFrame EXCEPT !.kind = "sweep", !.pc = "sw_empresa", !.tier = day,
                             !.now = clock, !.empresas = SeqOfSet(Empresas)]]
    /\ UNCHANGED <<cfdiDocs, stateChecks, auditLog, clock, notSM>>

\* for empresa in empresas: ... for cfdi in cfdis: the queryset is evaluated
\* when the inner loop starts.
validar_estado_cfdis_pendientes_load(w) ==
    LET f == vw[w]
    IN  /\ f.pc = "sw_empresa"
        /\ f.empresas # <<>>
        /\ vw' = [vw EXCEPT
               ![w].pc = "sw_next",
               ![w].empresas = Tail(f.empresas),
               ![w].todo = Instances(Take(
                   NewestFirst(SweepCandidates(Head(f.empresas), f.tier)), SWEEP_BATCH))]
        /\ UNCHANGED <<cfdiDocs, stateChecks, auditLog, clock, notSM>>

validar_estado_cfdis_pendientes_call(w, ans) ==
    LET f == vw[w]
    IN  /\ f.pc = "sw_next"
        /\ f.todo # <<>>
        /\ CanStart
        /\ vw' = [vw EXCEPT ![w] =
               Verifying([f EXCEPT !.todo = Tail(f.todo)], "sw_create", Head(f.todo), ans)]
        /\ UNCHANGED <<cfdiDocs, stateChecks, auditLog, clock, notSM>>

\* except SATClientError: logged, on to the next document
validar_estado_cfdis_pendientes_error(w) ==
    LET f == vw[w]
    IN  /\ f.pc = "sw_next"
        /\ f.todo # <<>>
        /\ vw' = [vw EXCEPT ![w].todo = Tail(f.todo)]
        /\ UNCHANGED <<cfdiDocs, stateChecks, auditLog, clock, notSM>>

\* The sweep writes the cache only `if es_cambio and estado_nuevo`.
SweepWrites(f) == f.es_cambio /\ f.result.estado # None

validar_estado_cfdis_pendientes_create(w) ==
    LET f == vw[w]
    IN  /\ f.pc = "sw_create"
        /\ stateChecks' = Append(stateChecks, CheckRow(f, f.result.estado_cancelacion))
        /\ clock' = clock + 1
        /\ vw' = [vw EXCEPT ![w].pc = IF SweepWrites(f) THEN "sw_save" ELSE "sw_next",
                            ![w].state_check = Len(stateChecks) + 1,
                            ![w].made = @ + 1,
                            ![w].response = IF SweepWrites(f) THEN None ELSE "ok"]
        /\ UNCHANGED <<cfdiDocs, auditLog, notSM>>

\*   cfdi.estado_sat = estado_nuevo
\*   if estado_nuevo == 'Cancelado': cfdi.fecha_cancelacion = now
\*   cfdi.save(update_fields=['estado_sat', 'fecha_cancelacion'])
SweepUpdate(obj, ans, now) ==
    [obj EXCEPT !.estado_sat = ans.estado,
                !.fecha_cancelacion = IF ans.estado = "Cancelado" THEN now ELSE @]

validar_estado_cfdis_pendientes_save(w) ==
    LET f == vw[w]
        obj == SweepUpdate(f.cfdi, f.result, f.now)
    IN  /\ f.pc = "sw_save"
        /\ cfdiDocs' = SaveFields(cfdiDocs, obj, {"estado_sat", "fecha_cancelacion"})
        /\ vw' = [vw EXCEPT ![w].pc = "sw_next", ![w].cfdi = obj, ![w].response = "ok"]
        /\ UNCHANGED <<stateChecks, auditLog, clock, notSM>>

\* the inner loop is over: the next company, or the task returns
validar_estado_cfdis_pendientes_next(w) ==
    LET f == vw[w]
    IN  /\ f.pc = "sw_next"
        /\ f.todo = <<>>
        /\ vw' = [vw EXCEPT ![w].pc = "sw_empresa"]
        /\ UNCHANGED <<cfdiDocs, stateChecks, auditLog, clock, notSM>>

validar_estado_cfdis_pendientes_return(w) ==
    LET f == vw[w]
    IN  /\ f.pc = "sw_empresa"
        /\ f.empresas = <<>>
        /\ vw' = [vw EXCEPT ![w].pc = "done", ![w].response = "ok"]
        /\ UNCHANGED <<cfdiDocs, stateChecks, auditLog, clock, notSM>>

(***************************************************************************)
(* Spec: the document state machine.  The documents are there as           *)
(* parse_and_save stored them; every workflow can run on every worker.     *)
(***************************************************************************)
UpdateStateSources == {"manual"}
UpdateStateCancelaciones == {None, "No cancelable"}

InitDocs ==
    << NewCfdiDocument(1, 1, 1, 10),
       NewCfdiDocument(1, 2, 1, 60) >>

Init ==
    /\ cfdiDocs = InitDocs
    /\ stateChecks = <<>>
    /\ auditLog = <<>>
    /\ clock = 1
    /\ vw = [w \in Workers |-> IdleFrame]
    /\ requests = <<>>
    /\ packages = <<>>
    /\ queue = <<>>
    /\ sat = <<>>
    /\ tw = <<>>
    /\ hist = <<>>
    /\ odoo = <<>>
    /\ syncLogs = <<>>
    /\ connections = <<>>
    /\ ow = <<>>
    /\ NoCertificates
    /\ NoParses
    /\ NoSettings
    /\ NoCalls

\* One verification call at a time.
Next ==
    \E w \in {1} :
        \/ \E d \in DOMAIN cfdiDocs, nuevo \in ESTADO_SAT_CHOICES,
              canc \in UpdateStateCancelaciones, source \in UpdateStateSources :
                update_state_call(w, d, nuevo, canc, source)
        \/ update_state_create(w)
        \/ update_state_save(w)
        \/ update_state_audit(w)
        \/ \E d \in DOMAIN cfdiDocs, ans \in SatAnswers : ValidarEstadoCfdiView_call(w, d, ans)
        \/ \E d \in DOMAIN cfdiDocs : ValidarEstadoCfdiView_error(w, d)
        \/ ValidarEstadoCfdiView_create(w)
        \/ ValidarEstadoCfdiView_save(w)
        \/ \E r \in Requests : ValidarTodosCfdiView_load(w, r)
        \/ \E ans \in SatAnswers : ValidarTodosCfdiView_call(w, ans)
        \/ ValidarTodosCfdiView_error(w)
        \/ ValidarTodosCfdiView_create(w)
        \/ ValidarTodosCfdiView_save(w)
        \/ ValidarTodosCfdiView_return(w)
        \/ \E day \in SweepDays : validar_estado_cfdis_pendientes_start(w, day)
        \/ validar_estado_cfdis_pendientes_load(w)
        \/ \E ans \in SatAnswers : validar_estado_cfdis_pendientes_call(w, ans)
        \/ validar_estado_cfdis_pendientes_error(w)
        \/ validar_estado_cfdis_pendientes_create(w)
        \/ validar_estado_cfdis_pendientes_save(w)
        \/ validar_estado_cfdis_pendientes_next(w)
        \/ validar_estado_cfdis_pendientes_return(w)
        \/ Return(w)

Spec == Init /\ [][Next]_vars

(***************************************************************************)
(* Claims about the document state machine.                                *)
(***************************************************************************)
\* A verification has written its state check and not yet the cache.
InProgress(d) ==
    \E w \in Workers :
        /\ vw[w].cfdi.id = d
        /\ vw[w].pc \in {"us_create", "us_save", "sv_create", "sv_save",
                         "bv_create", "bv_save", "sw_create", "sw_save"}

UpdateStateReturned(f) == f.kind = "update_state" /\ f.pc = "done"

\* C1: each call to update_state appends exactly one state-check row for the
\* document; the row's previous status is the status cached before the call,
\* its new status is the argument, es_cambio is true exactly when the two
\* differ; on return current_state_check points at that row and the cached
\* estado_sat and estado_cancelacion equal the arguments.
C1_UpdateStateAppendsOneCheck ==
    \A w \in Workers :
        LET f == vw[w]
            d == f.cfdi.id
            row == stateChecks[f.state_check]
        IN  UpdateStateReturned(f) =>
              /\ f.made = 1
              /\ Len(ChecksOf(d)) = f.rows_before + 1
              /\ f.state_check = LatestCheck(d)
              /\ row.document = d
              /\ row.estado_anterior = f.before.estado_sat
              /\ row.estado_sat = f.nuevo_estado_sat
              /\ row.es_cambio = (f.before.estado_sat # f.nuevo_estado_sat)
              /\ f.cfdi.current_state_check = f.state_check
              /\ cfdiDocs[d].current_state_check = f.state_check
              /\ cfdiDocs[d].estado_sat = f.nuevo_estado_sat
              /\ cfdiDocs[d].estado_cancelacion = f.nuevo_estado_cancelacion

\* An update_state call that changed the status has returned.
C1_Witness ==
    \E w \in Workers :
        /\ UpdateStateReturned(vw[w])
        /\ vw[w].before.estado_sat = "Vigente"
        /\ vw[w].nuevo_estado_sat = "Cancelado"
        /\ Len(stateChecks) >= 2

\* C2: update_state emits exactly one audit event (action status_change, with
\* the status before and after) when the new status differs from the previous
\* one and none when it is unchanged; an unchanged status still appends a
\* ledger row, with es_cambio false.
C2_AuditOnlyOnChange ==
    \A w \in Workers :
        LET f == vw[w]
            changed == f.before.estado_sat # f.nuevo_estado_sat
            event == auditLog[Len(auditLog)]
        IN  UpdateStateReturned(f) =>
              /\ changed =>
                    /\ f.logged = 1
                    /\ Len(auditLog) = f.audits_before + 1
                    /\ event.action = "status_change"
                    /\ event.entity_id = f.cfdi.id
                    /\ event.payload_before = f.before.estado_sat
                    /\ event.payload_after = f.nuevo_estado_sat
              /\ ~changed =>
                    /\ f.logged = 0
                    /\ Len(auditLog) = f.audits_before
                    /\ Len(ChecksOf(f.cfdi.id)) = f.rows_before + 1
                    /\ stateChecks[f.state_check].es_cambio = FALSE

\* An update_state call with an unchanged status has returned, after an
\* earlier call that changed the status and was audited.
C2_Witness ==
    \E w \in Workers :
        /\ UpdateStateReturned(vw[w])
        /\ vw[w].before.estado_sat = vw[w].nuevo_estado_sat
        /\ vw[w].made = 1
        /\ Len(auditLog) = 1

\* C3: after any sequence of status verifications from any entry point, the
\* document's current_state_check is the most recently appended state check
\* of that document.
C3_PointerIsLatestCheck ==
    \A d \in DOMAIN cfdiDocs :
        (Len(ChecksOf(d)) > 0 /\ ~InProgress(d)) =>
            cfdiDocs[d].current_state_check = LatestCheck(d)

\* C4: whenever no verification of a document is in progress and it has a
\* state check, its cached estado_sat and estado_cancelacion are those of its
\* latest state check.
C4_CacheIsProjection ==
    \A d \in DOMAIN cfdiDocs :
        (Len(ChecksOf(d)) > 0 /\ ~InProgress(d)) =>
            /\ cfdiDocs[d].estado_sat = stateChecks[LatestCheck(d)].estado_sat
            /\ cfdiDocs[d].estado_cancelacion = stateChecks[LatestCheck(d)].estado_cancelacion

\* The status a verification found: update_state's argument, or the
\* authority's answer in the three workflows.
Found(f) == IF f.kind = "update_state" THEN f.nuevo_estado_sat ELSE f.result.estado

\* A verification of one document by any entry point has run to its end.
Revalidated(f) ==
    /\ f.kind \in {"update_state", "sweep", "single", "bulk"}
    /\ f.made = 1
    /\ f.pc \in {"done", "bv_next", "sw_next"}
    /\ f.response = "ok"

\* C10: a document cached as Vigente that a revalidation finds Cancelado gets
\* exactly one new state check with es_cambio true, its cache fields updated
\* and exactly one audit event; revalidated again as Cancelado it gets a
\* second state check with es_cambio false and no audit event.
C10_RevalidationScenario ==
    \A w \in Workers :
        LET f == vw[w]
            d == f.cfdi.id
            row == stateChecks[f.state_check]
        IN  (Revalidated(f) /\ Found(f) = "Cancelado") =>
              /\ Len(ChecksOf(d)) = f.rows_before + 1
              /\ f.before.estado_sat = "Vigente" =>
                    /\ row.es_cambio = TRUE
                    /\ cfdiDocs[d].estado_sat = "Cancelado"
                    /\ cfdiDocs[d].fecha_cancelacion # 0
                    /\ Len(auditLog) = f.audits_before + 1
              /\ f.before.estado_sat = "Cancelado" =>
                    /\ row.es_cambio = FALSE
                    /\ Len(auditLog) = f.audits_before

(***************************************************************************)
(* Acquisition pipeline: apps/fiscal/tasks.py, steps 1-4.                  *)
(* requests and packages are the CfdiDownloadRequest and                   *)
(* SatDownloadPackage tables, queue the Celery broker (a bag of task       *)
(* messages), sat the authority's view of each request, tw the task each   *)
(* worker is running, hist what the finished tasks returned.               *)
(***************************************************************************)
MaxRequests == 2   \* download requests submitted over a run of the model
MaxPolls == 2      \* runs of the periodic poll over a run of the model
MaxFaults == 1     \* calls to the authority or the storage that fail over a run
MAX_RETRIES == 3   \* @shared_task(bind=True, max_retries=3)

acqUnch == <<stateChecks, auditLog, clock, vw, odooVars, certVars, parserVars, settings, rpc>>

\* The estado values verificar_solicitudes_pendientes tests for.
ESTADOS_TERMINADA == {"Terminada", "Terminado", "3", "EstadoSolicitud.TERMINADA"}
ESTADOS_ERROR == {"Error", "Rechazada", "Rechazado", "4", "5"}
ESTADOS_VENCIDA == {"Vencida", "6"}

\* Model.objects.get(id=...): an in-memory copy of a row.
Load(table, id) == [id |-> id] @@ table[id]
\* instance.save(): every field of the instance overwrites the row.
Save(table, obj) == [table EXCEPT ![obj.id] = [k \in DOMAIN table[obj.id] |-> obj[k]]]
NoRow == [id |-> 0]

NewDownloadRequest(company, request_id_sat) ==
    [company |-> company, status |-> "requested", request_id_sat |-> request_id_sat]

NewDownloadPackage(request, package_id_sat) ==
    [request |-> request, package_id_sat |-> package_id_sat, status |-> "pending",
     retry_count |-> 0, s3_zip_path |-> FALSE, cfdi_processed |-> 0]

IdleTask ==
    [pc |-> "idle", todo |-> <<>>, solicitud |-> NoRow, package |-> NoRow,
     request |-> NoRow, retries |-> 0, xmls |-> <<>>, data |-> NoRow,
     processed |-> 0, created |-> 0, errors |-> 0, total |-> 0, ids |-> <<>>]

TaskMessage(task, package_id, retries) ==
    [task |-> task, package_id |-> package_id, retries |-> retries]

\* ---- the broker ---------------------------------------------------------
Dequeue(t) == queue (-) SetToBag({t})
Enqueue(q, t) == q (+) SetToBag({t})

\* ---- the authority ------------------------------------------------------
\* The authority keeps, for every request it accepted, one of its six states
\* (1 accepted, 2 in progress, 3 finished, 4 error, 5 rejected, 6 expired)
\* and reports it in the encoding enc of its answers: the member of the
\* library's enumeration (it has a value and a name), the bare number, the
\* number as text, or the word.
Encodings == {"enum", "int", "digit", "word"}

EstadoNames == <<"ACEPTADA", "EN_PROCESO", "TERMINADA", "ERROR", "RECHAZADA", "VENCIDA">>
EstadoWords == <<"Aceptada", "EnProceso", "Terminada", "Error", "Rechazada", "Vencida">>

\* response.get('EstadoSolicitud') as the authority sends it
EstadoSolicitud(a) ==
    CASE a.enc = "enum"  -> [type |-> "enum", value |-> a.state, text |-> EstadoNames[a.state]]
      [] a.enc = "int"   -> [type |-> "int", value |-> a.state, text |-> ""]
      [] a.enc = "digit" -> [type |-> "str", value |-> 0, text |-> ToString(a.state)]
      [] OTHER           -> [type |-> "str", value |-> 0, text |-> EstadoWords[a.state]]

\* hasattr(estado, 'value'), hasattr(estado, 'name'), bool(estado), str(estado)
HasValue(estado) == estado.type = "enum"
HasName(estado) == estado.type \in {"enum", "named"}
Truthy(estado) ==
    CASE estado.type = "int" -> estado.value # 0
      [] estado.type = "str" -> estado.text # ""
      [] OTHER -> TRUE
Str(estado) ==
    CASE estado.type = "int" -> ToString(estado.value)
      [] estado.type = "str" -> estado.text
      [] OTHER -> "EstadoSolicitud." \o estado.text

\* A normalisation that looks at the name before the value.
Normalize_name_first(raw) ==
    LET estado == IF HasName(raw) THEN [type |-> "str", value |-> 0, text |-> raw.text]
                  ELSE IF HasValue(raw) THEN [type |-> "int", value |-> raw.value, text |-> ""]
                  ELSE raw
    IN  IF Truthy(estado) THEN Str(estado) ELSE None

\* if hasattr(estado, 'value'): estado = estado.value
\* elif hasattr(estado, 'name'): estado = estado.name
\* 'estado': str(estado) if estado else None
Normalize(raw) ==
    LET estado == IF HasValue(raw) THEN [type |-> "int", value |-> raw.value, text |-> ""]
                  ELSE IF HasName(raw) THEN [type |-> "str", value |-> 0, text |-> raw.text]
                  ELSE raw
    IN  IF Truthy(estado) THEN Str(estado) ELSE None

\* SATClient.solicitar_descarga: the authority accepts a request (estado 1);
\* the satcfdi library reports the state as a member of its enumeration.
SatAccept == Append(sat, [state |-> 1, enc |-> "enum"])

\* The authority moves a request on: an accepted or in-progress request to a
\* later state, a finished request to expired.
Sat_advance(id, estado) ==
    /\ IF sat[id].state = 3 THEN estado = 6
       ELSE sat[id].state \in {1, 2} /\ estado > sat[id].state
    /\ sat' = [sat EXCEPT ![id].state = estado]
    /\ UNCHANGED <<cfdiDocs, requests, packages, queue, tw, hist, acqUnch>>

\* SATClient.verificar_solicitud: the normalised estado and the package ids;
\* a finished request has one package.
verificar_solicitud(id_solicitud) ==
    [estado |-> Normalize(EstadoSolicitud(sat[id_solicitud])),
     paquetes |-> IF sat[id_solicitud].state = 3 THEN <<id_solicitud>> ELSE <<>>]

\* The XML payloads of a package's ZIP: one stamped CFDI and one without its
\* TimbreFiscalDigital.  Every package of the model carries the same two.
Archive(package_id_sat) ==
    IF package_id_sat % 2 = 1
    THEN << [timbre |-> TRUE, uuid |-> 1], [timbre |-> FALSE, uuid |-> 0] >>
    ELSE << [timbre |-> FALSE, uuid |-> 0], [timbre |-> TRUE, uuid |-> 1] >>

\* ---- step 1: solicitar_descarga_sat --------------------------------------
\* The ways the task ends: the request is accepted; the client raises a
\* SATClientError (SATClient.solicitar_descarga wraps every error of the
\* authority or the transport in SATRequestError, _load_signer raises
\* SATAuthError); anything else raises (the storage read of the certificate
\* files, the database).
SubmitOutcomes == {"ok", "SATClientError", "Exception"}

\* t is the task message, its package_id field holding the tenant: a first
\* delivery (retries = 0, sent by a view or by the scheduler) or a retry taken
\* from the broker.  The CfdiDownloadRequest row is created only after the
\* authority has accepted; `except SATClientError` returns the error,
\* `except Exception` is self.retry(exc, countdown=60) until max_retries.
solicitar_descarga_sat(w, t, outcome) ==
    LET empresa == t.package_id
        q == IF t.retries = 0 THEN queue ELSE Dequeue(t)
        gave_up == [empresa |-> empresa, attempts |-> t.retries + 1, exc |-> outcome]
    IN  /\ tw[w].pc = "idle"
        /\ t.task = "solicitar_descarga_sat"
        /\ t.retries > 0 => t \in BagToSet(queue)
        /\ Len(requests) < MaxRequests
        /\ outcome # "ok" => hist.faults < hist.budget
        /\ IF outcome = "ok" THEN
                /\ sat' = SatAccept
                /\ requests' = Append(requests, NewDownloadRequest(empresa, Len(sat) + 1))
                /\ queue' = q
                /\ hist' = [hist EXCEPT !.ready = Append(@, 0), !.downloaded = Append(@, 0),
                                        !.triggered = Append(@, 0)]
           ELSE IF outcome = "Exception" /\ t.retries < MAX_RETRIES THEN
                /\ queue' = Enqueue(q, TaskMessage("solicitar_descarga_sat", empresa, t.retries + 1))
                /\ hist' = [hist EXCEPT !.faults = @ + 1]
                /\ UNCHANGED <<sat, requests>>
           ELSE /\ queue' = q
                /\ hist' = [hist EXCEPT !.faults = @ + 1, !.gave_up = @ \cup {gave_up}]
                /\ UNCHANGED <<sat, requests>>
        /\ UNCHANGED <<cfdiDocs, packages, tw, acqUnch>>

\* ---- step 2: verificar_solicitudes_pendientes ----------------------------
\* CfdiDownloadRequest.Meta.ordering = ['-created_at']: newest first.
RECURSIVE Pendientes(_)
Pendientes(n) ==
    IF n = 0 THEN <<>>
    ELSE IF requests[n].status \in {"requested", "ready"}
         THEN <<Load(requests, n)>> \o Pendientes(n - 1)
         ELSE Pendientes(n - 1)

\* for solicitud in pendientes: the rows are read once, when the loop starts
verificar_solicitudes_pendientes_start(w) ==
    /\ tw[w].pc = "idle"
    /\ hist.polls < MaxPolls
    /\ hist' = [hist EXCEPT !.polls = @ + 1]
    /\ LET pendientes == Pendientes(Len(requests))
       IN  tw' = [tw EXCEPT ![w] = IF pendientes = <<>> THEN IdleTask
                                   ELSE [IdleTask EXCEPT !.pc = "poll", !.todo = pendientes]]
    /\ UNCHANGED <<cfdiDocs, requests, packages, queue, sat, acqUnch>>

PollAdvance(f) ==
    IF Len(f.todo) > 1 THEN [IdleTask EXCEPT !.pc = "poll", !.todo = Tail(f.todo)]
    ELSE IdleTask

\* result = client.verificar_solicitud(...); the status branch and its save()
verificar_solicitudes_pendientes_verify(w, raises) ==
    LET f == tw[w]
        solicitud == Head(f.todo)
        result == verificar_solicitud(solicitud.request_id_sat)
        estado == result.estado
        ready == [solicitud EXCEPT !.status = "ready"]
        failed == [solicitud EXCEPT !.status = "failed"]
    IN  /\ f.pc = "poll"
        /\ raises => hist.faults < hist.budget
        /\ IF raises THEN
                /\ tw' = [tw EXCEPT ![w] = PollAdvance(f)]
                /\ hist' = [hist EXCEPT !.faults = @ + 1]
                /\ UNCHANGED requests
           ELSE IF estado \in ESTADOS_TERMINADA THEN
                /\ requests' = Save(requests, ready)
                /\ tw' = [tw EXCEPT ![w] = [f EXCEPT !.pc = "poll_packages", !.solicitud = ready,
                                                     !.ids = result.paquetes]]
                /\ hist' = [hist EXCEPT !.ready[solicitud.id] = @ + 1]
           ELSE IF estado \in ESTADOS_ERROR \cup ESTADOS_VENCIDA THEN
                /\ requests' = Save(requests, failed)
                /\ tw' = [tw EXCEPT ![w] = PollAdvance(f)]
                /\ UNCHANGED hist
           ELSE /\ tw' = [tw EXCEPT ![w] = PollAdvance(f)]
                /\ UNCHANGED <<requests, hist>>
        /\ UNCHANGED <<cfdiDocs, packages, queue, sat, acqUnch>>

\* SatDownloadPackage.objects.get_or_create(request, package_id_sat,
\* defaults={'status': 'pending'}), first half: the lookup.  One row is
\* returned, no row leads to the insert, several rows raise
\* MultipleObjectsReturned, which the loop over the requests catches.
get_or_create_get(w) ==
    LET f == tw[w]
        found == {p \in DOMAIN packages : /\ packages[p].request = f.solicitud.id
                                          /\ packages[p].package_id_sat = Head(f.ids)}
    IN  /\ f.pc = "poll_packages"
        /\ f.ids # <<>>
        /\ tw' = [tw EXCEPT ![w] =
                    IF found = {} THEN [f EXCEPT !.pc = "poll_create"]
                    ELSE IF Cardinality(found) = 1 THEN [f EXCEPT !.ids = Tail(@)]
                    ELSE PollAdvance(f)]
        /\ UNCHANGED <<cfdiDocs, requests, packages, queue, sat, hist, acqUnch>>

\* get_or_create, second half: the insert.  The table has no uniqueness
\* constraint over (request, package_id_sat), so the insert always succeeds.
get_or_create_create(w) ==
    LET f == tw[w]
    IN  /\ f.pc = "poll_create"
        /\ packages' = Append(packages, NewDownloadPackage(f.solicitud.id, Head(f.ids)))
        /\ hist' = [hist EXCEPT !.fetch_failed = Append(@, 0),
                                !.created = Append(@, 0),
                                !.errors = Append(@, {})]
        /\ tw' = [tw EXCEPT ![w] = [f EXCEPT !.pc = "poll_packages", !.ids = Tail(@)]]
        /\ UNCHANGED <<cfdiDocs, requests, queue, sat, acqUnch>>

\* descargar_paquete_sat.delay(pkg.id) for every package still pending
verificar_solicitudes_pendientes_packages(w) ==
    LET f == tw[w]
        pending == {p \in DOMAIN packages : /\ packages[p].request = f.solicitud.id
                                            /\ packages[p].status = "pending"}
    IN  /\ f.pc = "poll_packages"
        /\ f.ids = <<>>
        /\ queue' = queue (+) SetToBag({TaskMessage("descargar_paquete_sat", p, 0) : p \in pending})
        /\ tw' = [tw EXCEPT ![w] = PollAdvance(f)]
        /\ UNCHANGED <<cfdiDocs, requests, packages, sat, hist, acqUnch>>

\* ---- step 3: descargar_paquete_sat ---------------------------------------
\* package = ...get(id=package_id); package.status = 'downloading'; save()
descargar_paquete_sat_start(w, t) ==
    LET package == [Load(packages, t.package_id) EXCEPT !.status = "downloading"]
    IN  /\ tw[w].pc = "idle"
        /\ t \in BagToSet(queue)
        /\ t.task = "descargar_paquete_sat"
        /\ queue' = Dequeue(t)
        /\ packages' = Save(packages, package)
        /\ tw' = [tw EXCEPT ![w] = [IdleTask EXCEPT !.pc = "fetch", !.package = package,
                                                    !.retries = t.retries]]
        /\ UNCHANGED <<cfdiDocs, requests, sat, hist, acqUnch>>

FetchOutcomes == {"ok", "SATClientError", "Exception"}

\* self.retry(exc, countdown=120): the task is sent again until max_retries
Retry(q, f) ==
    IF f.retries < MAX_RETRIES
    THEN Enqueue(q, TaskMessage("descargar_paquete_sat", f.package.id, f.retries + 1))
    ELSE q

\* client.descargar_paquete(...), the upload, and the three ways it ends
descargar_paquete_sat_download(w, outcome) ==
    LET f == tw[w]
        downloaded == [f.package EXCEPT !.status = "downloaded", !.s3_zip_path = TRUE]
        failed == [f.package EXCEPT !.status = "failed", !.retry_count = @ + 1]
    IN  /\ f.pc = "fetch"
        /\ outcome # "ok" => hist.faults < hist.budget
        /\ IF outcome = "ok" THEN
                /\ packages' = Save(packages, downloaded)
                /\ queue' = Enqueue(queue, TaskMessage("procesar_paquete_xml", f.package.id, 0))
                /\ UNCHANGED hist
           ELSE IF outcome = "SATClientError" THEN
                /\ packages' = Save(packages, failed)
                /\ queue' = Retry(queue, f)
                /\ hist' = [hist EXCEPT !.fetch_failed[f.package.id] = @ + 1, !.faults = @ + 1]
           ELSE /\ queue' = Retry(queue, f)
                /\ hist' = [hist EXCEPT !.fetch_failed[f.package.id] = @ + 1, !.faults = @ + 1]
                /\ UNCHANGED packages
        /\ tw' = [tw EXCEPT ![w] = IdleTask]
        /\ UNCHANGED <<cfdiDocs, requests, sat, acqUnch>>

\* ---- step 4: procesar_paquete_xml ----------------------------------------
\* CFDIParser.parse, as far as ingestion depends on it: a payload without
\* TimbreFiscalDigital has no UUID and raises CFDIParseError.
CFDIParser_parse_unstamped(xml) == [ok |-> TRUE, uuid |-> xml.uuid]

CFDIParser_parse(xml) ==
    IF xml.timbre THEN [ok |-> TRUE, uuid |-> xml.uuid] ELSE [ok |-> FALSE, uuid |-> 0]

\* UniqueConstraint(fields=['company', 'uuid']) is not enforced.
Unconstrained(docs, company, uuid) == FALSE

\* UniqueConstraint(fields=['company', 'uuid']): the insert would violate it
IntegrityError(docs, company, uuid) ==
    \E d \in DOMAIN docs : docs[d].company = company /\ docs[d].uuid = uuid

\* package = ...select_related('request__company').get(id=package_id);
\* package.status = 'processing'; save(); read the ZIP back from storage
procesar_paquete_xml_start(w, t) ==
    LET package == [Load(packages, t.package_id) EXCEPT !.status = "processing"]
        failed == [package EXCEPT !.status = "failed"]
    IN  /\ tw[w].pc = "idle"
        /\ t \in BagToSet(queue)
        /\ t.task = "procesar_paquete_xml"
        /\ queue' = Dequeue(t)
        /\ IF package.s3_zip_path THEN
                /\ packages' = Save(packages, package)
                /\ tw' = [tw EXCEPT ![w] = [IdleTask EXCEPT
                              !.pc = "parse", !.package = package,
                              !.request = Load(requests, package.request),
                              !.xmls = Archive(package.package_id_sat),
                              !.total = Len(Archive(package.package_id_sat))]]
           ELSE /\ packages' = Save(packages, failed)
                /\ tw' = [tw EXCEPT ![w] = IdleTask]
        /\ UNCHANGED <<cfdiDocs, requests, sat, hist, acqUnch>>

\* A loop that gives the package up at the first document that does not parse.
parse_and_save_check_abort(w) ==
    LET f == tw[w]
        data == CFDIParser_parse(Head(f.xmls))
    IN  /\ f.pc = "parse"
        /\ f.xmls # <<>>
        /\ tw' = [tw EXCEPT ![w] =
                    IF ~data.ok THEN [f EXCEPT !.errors = @ + 1, !.xmls = <<>>]
                    ELSE [f EXCEPT !.pc = "parse_insert", !.data = data]]
        /\ UNCHANGED <<cfdiDocs, requests, packages, queue, sat, hist, acqUnch>>

\* parser.parse_and_save, first half: parse, then look the UUID up
parse_and_save_check(w) ==
    LET f == tw[w]
        data == CFDIParser_parse(Head(f.xmls))
        existing == {d \in DOMAIN cfdiDocs : /\ cfdiDocs[d].uuid = data.uuid
                                             /\ cfdiDocs[d].company = f.request.company}
    IN  /\ f.pc = "parse"
        /\ f.xmls # <<>>
        /\ tw' = [tw EXCEPT ![w] =
                    IF ~data.ok THEN [f EXCEPT !.errors = @ + 1, !.xmls = Tail(@)]
                    ELSE IF existing # {} THEN [f EXCEPT !.processed = @ + 1, !.xmls = Tail(@)]
                    ELSE [f EXCEPT !.pc = "parse_insert", !.data = data]]
        /\ UNCHANGED <<cfdiDocs, requests, packages, queue, sat, hist, acqUnch>>

\* parser.parse_and_save, second half: document.save(); an IntegrityError is
\* caught by the loop's `except Exception` and counted as an error
parse_and_save_insert(w) ==
    LET f == tw[w]
        empresa == f.request.company
    IN  /\ f.pc = "parse_insert"
        /\ IF IntegrityError(cfdiDocs, empresa, f.data.uuid) THEN
                /\ tw' = [tw EXCEPT ![w] = [f EXCEPT !.pc = "parse", !.errors = @ + 1,
                                                     !.xmls = Tail(@), !.data = NoRow]]
                /\ UNCHANGED cfdiDocs
           ELSE /\ cfdiDocs' = Append(cfdiDocs, NewCfdiDocument(empresa, f.data.uuid, f.request.id, 0))
                /\ tw' = [tw EXCEPT ![w] = [f EXCEPT !.pc = "parse", !.processed = @ + 1,
                                                     !.created = @ + 1,
                                                     !.xmls = Tail(@), !.data = NoRow]]
        /\ UNCHANGED <<requests, packages, queue, sat, hist, acqUnch>>

\* package.cfdi_processed = processed; package.status = 'completed'; save()
procesar_paquete_xml_complete(w) ==
    LET f == tw[w]
        package == [f.package EXCEPT !.status = "completed", !.cfdi_processed = f.processed]
    IN  /\ f.pc = "parse"
        /\ f.xmls = <<>>
        /\ packages' = Save(packages, package)
        /\ tw' = [tw EXCEPT ![w] = [f EXCEPT !.pc = "parse_request", !.package = package]]
        /\ UNCHANGED <<cfdiDocs, requests, queue, sat, hist, acqUnch>>

\* EmpresaSyncSettings.sync_to_odoo_enabled of a tenant: tenant 1 has the
\* reconciliation switched on, tenant 2 has it switched off
sync_to_odoo_enabled(empresa) == empresa = 1

\* the dictionary the task returns
Summary(f) ==
    [success |-> TRUE, processed |-> f.processed, created |-> f.created,
     duplicates |-> f.processed - f.created, errors |-> f.errors, total |-> f.total]

\* A parse run has saved its package and is about to return its summary.
Returning(f) == f.pc = "parse_request"

\* A run that returns without looking at the parent request.
procesar_paquete_xml_return_unmarked(w) ==
    LET f == tw[w]
    IN  /\ f.pc = "parse_request"
        /\ hist' = [hist EXCEPT !.created[f.package.id] = @ + f.created,
                                !.errors[f.package.id] = @ \cup {f.errors}]
        /\ tw' = [tw EXCEPT ![w] = IdleTask]
        /\ UNCHANGED <<cfdiDocs, requests, packages, queue, sat, acqUnch>>

\* the parent request is marked downloaded when no package of it is left in
\* another status, the reconciliation task is sent to the broker when the
\* tenant has it enabled, and the summary is returned
procesar_paquete_xml_return(w) ==
    LET f == tw[w]
        request == f.package.request
        all_completed == ~ \E p \in DOMAIN packages : /\ packages[p].request = request
                                                      /\ packages[p].status # "completed"
        triggers == all_completed /\ sync_to_odoo_enabled(f.request.company)
    IN  /\ f.pc = "parse_request"
        /\ requests' = IF all_completed
                       THEN Save(requests, [f.request EXCEPT !.status = "downloaded"])
                       ELSE requests
        /\ hist' = [hist EXCEPT !.created[f.package.id] = @ + f.created,
                                !.errors[f.package.id] = @ \cup {f.errors},
                                !.downloaded[request] = @ + (IF all_completed THEN 1 ELSE 0),
                                !.triggered[request] = @ + (IF triggers THEN 1 ELSE 0)]
        /\ tw' = [tw EXCEPT ![w] = IdleTask]
        /\ UNCHANGED <<cfdiDocs, packages, queue, sat, acqUnch>>

\* ---- the pipeline as a whole ----------------------------------------------
InitAcq ==
    /\ cfdiDocs = <<>>
    /\ stateChecks = <<>>
    /\ auditLog = <<>>
    /\ clock = 1
    /\ vw = [w \in Workers |-> IdleFrame]
    /\ requests = <<>>
    /\ packages = <<>>
    /\ queue = EmptyBag
    /\ sat = <<>>
    /\ tw = [w \in Workers |-> IdleTask]
    /\ hist = [polls |-> 0, faults |-> 0, budget |-> MaxFaults, ready |-> <<>>,
               fetch_failed |-> <<>>,
               created |-> <<>>, errors |-> <<>>, downloaded |-> <<>>, triggered |-> <<>>,
               gave_up |-> {}]
    /\ odoo = <<>>
    /\ syncLogs = <<>>
    /\ connections = <<>>
    /\ ow = <<>>
    /\ NoCertificates
    /\ NoParses
    /\ NoSettings
    /\ NoCalls

Tasks ==
    {TaskMessage(task, p, n) : task \in {"descargar_paquete_sat", "procesar_paquete_xml"},
                               p \in DOMAIN packages, n \in 0..MAX_RETRIES}

SubmitTasks ==
    {TaskMessage("solicitar_descarga_sat", empresa, n) : empresa \in Empresas, n \in 0..MAX_RETRIES}

\* The periodic poll is started on one worker at a time in SpecAcq: a run
\* ends before the next one is due.  SpecPoll below lets the runs overlap.
Pollers == {1}

NextAcq ==
    \/ \E id \in DOMAIN sat, estado \in {3, 5} : Sat_advance(id, estado)
    \/ \E w \in Workers :
        \/ \E t \in SubmitTasks, outcome \in SubmitOutcomes : solicitar_descarga_sat(w, t, outcome)
        \/ w \in Pollers /\ verificar_solicitudes_pendientes_start(w)
        \/ \E raises \in BOOLEAN : verificar_solicitudes_pendientes_verify(w, raises)
        \/ get_or_create_get(w)
        \/ get_or_create_create(w)
        \/ verificar_solicitudes_pendientes_packages(w)
        \/ \E t \in Tasks : descargar_paquete_sat_start(w, t)
        \/ \E outcome \in FetchOutcomes : descargar_paquete_sat_download(w, outcome)
        \/ \E t \in Tasks : procesar_paquete_xml_start(w, t)
        \/ parse_and_save_check(w)
        \/ parse_and_save_insert(w)
        \/ procesar_paquete_xml_complete(w)
        \/ procesar_paquete_xml_return(w)

SpecAcq == InitAcq /\ [][NextAcq]_vars

\* Submission and polling alone, the poll runs free to overlap on the two
\* workers (a run that outlasts the period, or a poll started by hand).
NextPoll ==
    \/ \E id \in DOMAIN sat, estado \in {3, 5} : Sat_advance(id, estado)
    \/ \E w \in Workers :
        \/ \E t \in SubmitTasks, outcome \in SubmitOutcomes : solicitar_descarga_sat(w, t, outcome)
        \/ verificar_solicitudes_pendientes_start(w)
        \/ \E raises \in BOOLEAN : verificar_solicitudes_pendientes_verify(w, raises)
        \/ get_or_create_get(w)
        \/ get_or_create_create(w)
        \/ verificar_solicitudes_pendientes_packages(w)

SpecPoll == InitAcq /\ [][NextPoll]_vars

(***************************************************************************)
(* Claims about the acquisition pipeline.                                  *)
(***************************************************************************)
DocsOf(company, uuid) ==
    {d \in DOMAIN cfdiDocs : cfdiDocs[d].company = company /\ cfdiDocs[d].uuid = uuid}

\* A parse run over package p has completed.
Parsed(p) == hist.errors[p] # {}

RequestRank(status) ==
    CASE status = "requested" -> 0
      [] status = "ready" -> 1
      [] status \in {"downloaded", "failed"} -> 2

\* C6: a download request's status only moves forward along
\* requested -> ready -> downloaded | failed; no step moves it back, or out of
\* downloaded or failed.
C6_RequestStatusForward ==
    [][\A r \in DOMAIN requests :
          \/ requests'[r].status = requests[r].status
          \/ RequestRank(requests'[r].status) > RequestRank(requests[r].status)]_vars

PackageRank(status) ==
    CASE status = "pending" -> 0
      [] status = "downloading" -> 1
      [] status = "downloaded" -> 2
      [] status = "processing" -> 3
      [] status = "completed" -> 4

\* A step of a package's status that the chain allows: forward along the
\* chain, to failed from anything but completed, or a retry out of failed.
PackageStep(from, to) ==
    \/ from = to
    \/ from # "completed" /\ to = "failed"
    \/ from = "failed" /\ to = "downloading"
    \/ from # "failed" /\ to # "failed" /\ PackageRank(to) > PackageRank(from)

\* C7: a package's status only advances along pending -> downloading ->
\* downloaded -> processing -> completed | failed, nothing moves it out of
\* completed, and parse starts only on a package that is downloaded.
C7_PackageStatusForward ==
    [][\A p \in DOMAIN packages :
          /\ PackageStep(packages[p].status, packages'[p].status)
          /\ (packages'[p].status = "processing" /\ packages[p].status # "processing")
                => packages[p].status = "downloaded"]_vars

Quiescent == queue = EmptyBag /\ \A w \in Workers : tw[w].pc = "idle"

PackagesOf(r) == {p \in DOMAIN packages : packages[p].request = r}

\* The scenario of C9 for request r: the tenant's only request, one poll
\* found it finished, and no download of its package failed.
Scenario(r) ==
    /\ \A r2 \in DOMAIN requests : requests[r2].company = requests[r].company => r2 = r
    /\ hist.ready[r] = 1
    /\ \A p \in PackagesOf(r) : hist.fetch_failed[p] = 0

MaxPackages == 3

InitParse ==
    /\ cfdiDocs = <<>>
    /\ stateChecks = <<>>
    /\ auditLog = <<>>
    /\ clock = 1
    /\ vw = [w \in Workers |-> IdleFrame]
    /\ \E empresa \in Empresas :
          requests = << [NewDownloadRequest(empresa, 1) EXCEPT !.status = "ready"] >>
    /\ \E n \in 1..MaxPackages :
          /\ packages = [k \in 1..n |-> [NewDownloadPackage(1, k) EXCEPT
                                            !.status = "downloaded", !.s3_zip_path = TRUE]]
          /\ queue = SetToBag({TaskMessage("procesar_paquete_xml", k, 0) : k \in 1..n})
          /\ hist = [polls |-> 1, faults |-> 0, budget |-> MaxFaults, ready |-> <<1>>,
                     fetch_failed |-> [k \in 1..n |-> 0],
                     created |-> [k \in 1..n |-> 0], errors |-> [k \in 1..n |-> {}],
                     downloaded |-> <<0>>, triggered |-> <<0>>, gave_up |-> {}]
    /\ sat = << [state |-> 3, enc |-> "enum"] >>
    /\ tw = [w \in Workers |-> IdleTask]
    /\ odoo = <<>>
    /\ syncLogs = <<>>
    /\ connections = <<>>
    /\ ow = <<>>
    /\ NoCertificates
    /\ NoParses
    /\ NoSettings
    /\ NoCalls

NextParse ==
    \E w \in Workers :
        \/ \E t \in Tasks : procesar_paquete_xml_start(w, t)
        \/ parse_and_save_check(w)
        \/ parse_and_save_insert(w)
        \/ procesar_paquete_xml_complete(w)
        \/ procesar_paquete_xml_return(w)

SpecParse == InitParse /\ [][NextParse]_vars

\* Every package of request r is completed and every run that completed one
\* has gone through its look at the parent request.
AllCompleted(r) ==
    /\ PackagesOf(r) # {}
    /\ \A p \in PackagesOf(r) : packages[p].status = "completed"
    /\ \A w \in Workers : Returning(tw[w]) => tw[w].package.request # r

\* C13: when the last outstanding package of a request completes, the
\* request is marked downloaded, whatever the number of packages, the order
\* in which they complete, and whether or not they complete at the same time.
C13_LastPackageMarksDownloaded ==
    \A r \in DOMAIN requests :
        AllCompleted(r) => hist.downloaded[r] >= 1 /\ requests[r].status = "downloaded"

\* Three packages, all completed, the last two saved as completed by the two
\* workers before either looked at the parent request.
C13_Witness ==
    \E r \in DOMAIN requests :
        /\ AllCompleted(r)
        /\ Cardinality(PackagesOf(r)) = MaxPackages
        /\ hist.downloaded[r] = 2

\* C14: the reconciliation of a request is triggered exactly once, at the
\* moment the request becomes downloaded, when its tenant has the
\* reconciliation enabled, and is never triggered for a tenant that has it
\* disabled.
C14_ReconciliationTriggeredOnce ==
    \A r \in DOMAIN requests :
        /\ hist.triggered[r] <= 1
        /\ hist.triggered[r] =
             (IF sync_to_odoo_enabled(requests[r].company) /\ hist.downloaded[r] >= 1
              THEN 1 ELSE 0)

(***************************************************************************)
(* The fetch stage with an authority or a storage that keeps failing: one  *)
(* ready request whose packages are pending and queued for                 *)
(* descargar_paquete_sat, and as many failures as one package needs to use *)
(* up its attempts (the first one and MAX_RETRIES retries).                *)
(***************************************************************************)
InitFetch ==
    /\ cfdiDocs = <<>>
    /\ stateChecks = <<>>
    /\ auditLog = <<>>
    /\ clock = 1
    /\ vw = [w \in Workers |-> IdleFrame]
    /\ requests = << [NewDownloadRequest(1, 1) EXCEPT !.status = "ready"] >>
    /\ \E n \in 1..2 :
          /\ packages = [k \in 1..n |-> NewDownloadPackage(1, k)]
          /\ queue = SetToBag({TaskMessage("descargar_paquete_sat", k, 0) : k \in 1..n})
          /\ hist = [polls |-> 1, faults |-> 0, budget |-> MAX_RETRIES + 1, ready |-> <<1>>,
                     fetch_failed |-> [k \in 1..n |-> 0],
                     created |-> [k \in 1..n |-> 0], errors |-> [k \in 1..n |-> {}],
                     downloaded |-> <<0>>, triggered |-> <<0>>, gave_up |-> {}]
    /\ sat = << [state |-> 3, enc |-> "enum"] >>
    /\ tw = [w \in Workers |-> IdleTask]
    /\ odoo = <<>>
    /\ syncLogs = <<>>
    /\ connections = <<>>
    /\ ow = <<>>
    /\ NoCertificates
    /\ NoParses
    /\ NoSettings
    /\ NoCalls

NextFetch ==
    \E w \in Workers :
        \/ \E t \in Tasks : descargar_paquete_sat_start(w, t)
        \/ \E outcome \in FetchOutcomes : descargar_paquete_sat_download(w, outcome)
        \/ \E t \in Tasks : procesar_paquete_xml_start(w, t)
        \/ parse_and_save_check(w)
        \/ parse_and_save_insert(w)
        \/ procesar_paquete_xml_complete(w)
        \/ procesar_paquete_xml_return(w)

SpecFetch == InitFetch /\ [][NextFetch]_vars

\* No attempt to fetch package p is queued or running.
FetchAtRest(p) ==
    /\ \A t \in BagToSet(queue) : ~(t.task = "descargar_paquete_sat" /\ t.package_id = p)
    /\ \A w \in Workers : tw[w].pc = "fetch" => tw[w].package.id # p

\* C15: a fetch that fails transiently is retried a bounded number of times,
\* the retry counter of the package goes up by one with every failed attempt,
\* and the package is marked failed once the retries are used up.
C15_FetchRetriesCounted ==
    \A p \in DOMAIN packages :
        /\ hist.fetch_failed[p] <= MAX_RETRIES + 1
        /\ packages[p].retry_count = hist.fetch_failed[p]
        /\ hist.fetch_failed[p] = MAX_RETRIES + 1 /\ FetchAtRest(p)
              => packages[p].status = "failed"

\* C16: a submission that fails with an error of the authority or of the
\* transport is retried a bounded number of times, and once the attempts are
\* used up a DownloadRequest in status failed records the failure.
C16_SubmitFailureRecorded ==
    \A g \in hist.gave_up :
        /\ g.attempts > 1
        /\ g.attempts <= MAX_RETRIES + 1
        /\ \E r \in DOMAIN requests : /\ requests[r].company = g.empresa
                                       /\ requests[r].status = "failed"

(***************************************************************************)
(* Polling against an authority that reports its six states in any of its  *)
(* encodings: one or two accepted requests, each answered in an encoding   *)
(* of its own, and the poll runs of SpecAcq.                               *)
(***************************************************************************)
InitStatus ==
    /\ cfdiDocs = <<>>
    /\ stateChecks = <<>>
    /\ auditLog = <<>>
    /\ clock = 1
    /\ vw = [w \in Workers |-> IdleFrame]
    /\ \E n \in 1..MaxRequests :
          /\ requests = [r \in 1..n |-> NewDownloadRequest(1, r)]
          /\ sat \in [1..n -> [state : {1}, enc : Encodings]]
          /\ hist = [polls |-> 0, faults |-> 0, budget |-> MaxFaults,
                     ready |-> [r \in 1..n |-> 0], fetch_failed |-> <<>>,
                     created |-> <<>>, errors |-> <<>>,
                     downloaded |-> [r \in 1..n |-> 0], triggered |-> [r \in 1..n |-> 0],
                     gave_up |-> {}]
    /\ packages = <<>>
    /\ queue = EmptyBag
    /\ tw = [w \in Workers |-> IdleTask]
    /\ odoo = <<>>
    /\ syncLogs = <<>>
    /\ connections = <<>>
    /\ ow = <<>>
    /\ NoCertificates
    /\ NoParses
    /\ NoSettings
    /\ NoCalls

NextStatus ==
    \/ \E id \in DOMAIN sat, estado \in 2..6 : Sat_advance(id, estado)
    \/ \E w \in Pollers :
        \/ verificar_solicitudes_pendientes_start(w)
        \/ \E raises \in BOOLEAN : verificar_solicitudes_pendientes_verify(w, raises)
        \/ get_or_create_get(w)
        \/ get_or_create_create(w)
        \/ verificar_solicitudes_pendientes_packages(w)

SpecStatus == InitStatus /\ [][NextStatus]_vars

\* The status the poll has to give a request whose authority state is k.
Expected(status, k) ==
    CASE k \in {1, 2} -> status
      [] k = 3 -> "ready"
      [] OTHER -> "failed"

\* Worker w takes the answer of the authority for the request at the head of
\* its list, the call not raising.
Verifies(w) ==
    /\ tw[w].pc = "poll"
    /\ tw'[w] # tw[w]
    /\ hist'.faults = hist.faults

\* A step gives every request the status its authority state calls for.
FollowsAuthority ==
    /\ \A w \in Pollers :
          Verifies(w) =>
             requests'[Head(tw[w].todo).id].status =
                Expected(requests[Head(tw[w].todo).id].status, sat[Head(tw[w].todo).id].state)
    /\ \A r \in DOMAIN requests :
          requests'[r].status # requests[r].status =>
             /\ requests'[r].status \in {"ready", "failed"}
             /\ requests'[r].status = Expected(requests[r].status, sat[r].state)

\* C17: in every encoding in which the authority reports one of its six
\* states, numeric or symbolic, the poll leaves the request as it is for
\* accepted and in progress, marks it ready on finished and only then, and
\* marks it failed on error, rejected and expired and only then.
C17_PollFollowsAuthorityState == [][FollowsAuthority]_vars

\* A request marked failed after the authority reported it expired by the
\* word, next to a request marked ready from the member of the enumeration.
C17_Witness ==
    \E r, q \in DOMAIN requests :
        /\ requests[r].status = "failed" /\ sat[r] = [state |-> 6, enc |-> "word"]
        /\ requests[q].status = "ready" /\ sat[q] = [state |-> 3, enc |-> "enum"]

\* C12: however many poll runs go over a ready request, overlapping runs
\* included, there is exactly one DownloadPackage row per package id that
\* the authority returned for the request.
C12_OnePackagePerPackageId ==
    \A p, q \in DOMAIN packages :
        /\ packages[p].request = packages[q].request
        /\ packages[p].package_id_sat = packages[q].package_id_sat
        => p = q

MaxSyncs == 3        \* calls of sync_cfdi_to_odoo over a run of the model
MaxOdooFaults == 1   \* XML-RPC calls that fail over a run of the model

OdooWorkers == {1}
CfdiUuids == {1, 2}
odooUnch == <<smVars, acqVars, certVars, parserVars, settings, rpc>>

NoResult == [status |-> None, odoo_invoice_id |-> 0]

IdleSync ==
    [pc |-> "idle", cfdi_uuid |-> 0, xml_content |-> FALSE, sync_log |-> 0,
     invoice_id |-> 0, attachment_id |-> 0, doc_id |-> 0,
     creates |-> 0, faults |-> 0, result |-> NoResult,
     \* the call made just before this one
     prev |-> [cfdi_uuid |-> 0, xml_content |-> FALSE, invoice_id |-> 0, result |-> NoResult]]

NewSyncLog(cfdi_uuid) ==
    [cfdi_uuid |-> cfdi_uuid, status |-> "pending", odoo_invoice_id |-> 0, action_taken |-> None]

\* account.move.l10n_mx_edi_cfdi_uuid is computed by the external system from
\* the move's l10n_mx_edi.document and its attachment.
MoveUuids(m) ==
    {odoo.attachments[odoo.documents[d].attachment_id].cfdi_uuid :
        d \in {x \in DOMAIN odoo.documents : odoo.documents[x].move_id = m}}

Min(S) == CHOOSE x \in S : \A y \in S : x <= y

\* OdooClient.find_invoice_by_uuid_extended: by the move's computed UUID within
\* the company, then by l10n_mx_edi.document, then by ir.attachment.cfdi_uuid.
find_invoice_by_uuid_extended(uuid, company_id) ==
    LET invoices == {m \in DOMAIN odoo.moves : /\ uuid \in MoveUuids(m)
                                               /\ odoo.moves[m].company_id = company_id}
        docs == {d \in DOMAIN odoo.documents :
                    odoo.attachments[odoo.documents[d].attachment_id].cfdi_uuid = uuid}
        attachments == {a \in DOMAIN odoo.attachments : odoo.attachments[a].cfdi_uuid = uuid}
    IN  IF invoices # {} THEN Min(invoices)
        ELSE IF docs # {} THEN odoo.documents[Min(docs)].move_id
        ELSE IF attachments # {} THEN odoo.attachments[Min(attachments)].res_id
        ELSE 0

\* The RFC of the counterparty named in the CFDI.
Vat(uuid) == uuid

SetLog(pk, status, invoice_id, action) ==
    [syncLogs EXCEPT ![pk].status = status, ![pk].odoo_invoice_id = invoice_id,
                     ![pk].action_taken = action]

\* sync_log = OdooSyncLog.objects.create(..., status='pending')
sync_cfdi_to_odoo_call(w, cfdi_uuid, xml_content) ==
    /\ ow[w].pc \in {"idle", "done"}
    /\ Len(syncLogs) < MaxSyncs
    /\ syncLogs' = Append(syncLogs, NewSyncLog(cfdi_uuid))
    /\ ow' = [ow EXCEPT ![w] = [IdleSync EXCEPT
                  !.pc = "lookup", !.cfdi_uuid = cfdi_uuid, !.xml_content = xml_content,
                  !.sync_log = Len(syncLogs) + 1,
                  !.prev = [cfdi_uuid |-> ow[w].cfdi_uuid, xml_content |-> ow[w].xml_content,
                            invoice_id |-> ow[w].invoice_id, result |-> ow[w].result]]]
    /\ UNCHANGED <<odoo, connections, odooUnch>>

\* except Exception: the log is closed as error, connection.last_error is set
SyncError(w, f) ==
    /\ syncLogs' = SetLog(f.sync_log, "error", 0, None)
    /\ connections' = [connections EXCEPT !.last_error = TRUE, !.faults = @ + 1]
    /\ ow' = [ow EXCEPT ![w] = [f EXCEPT !.pc = "done", !.faults = @ + 1,
                                         !.result = [status |-> "error", odoo_invoice_id |-> 0]]]

\* XML-RPC calls that have failed so far
OdooFaults == connections.faults

\* steps 1-2: the lookup, _handle_existing_invoice, the XML check
sync_cfdi_to_odoo_lookup(w, fault) ==
    LET f == ow[w]
        existing_invoice == find_invoice_by_uuid_extended(f.cfdi_uuid, connections.odoo_company_id)
    IN  /\ f.pc = "lookup"
        /\ fault => OdooFaults < MaxOdooFaults
        /\ IF fault THEN SyncError(w, f)
           ELSE IF existing_invoice # 0 THEN
                /\ syncLogs' = SetLog(f.sync_log, "success", existing_invoice, "verified")
                /\ ow' = [ow EXCEPT ![w] = [f EXCEPT !.pc = "done",
                              !.result = [status |-> "exists", odoo_invoice_id |-> existing_invoice]]]
                /\ UNCHANGED connections
           ELSE IF ~f.xml_content THEN
                /\ syncLogs' = SetLog(f.sync_log, "error", 0, None)
                /\ ow' = [ow EXCEPT ![w] = [f EXCEPT !.pc = "done",
                              !.result = [status |-> "error", odoo_invoice_id |-> 0]]]
                /\ UNCHANGED connections
           ELSE /\ ow' = [ow EXCEPT ![w].pc = "partner"]
                /\ UNCHANGED <<syncLogs, connections>>
        /\ UNCHANGED <<odoo, odooUnch>>

\* steps 3-5: parse, _get_move_type, _find_or_create_partner
sync_cfdi_to_odoo_partner(w, fault) ==
    LET f == ow[w]
        found == Vat(f.cfdi_uuid) \in odoo.partners
    IN  /\ f.pc = "partner"
        /\ fault => OdooFaults < MaxOdooFaults
        /\ IF fault THEN SyncError(w, f) /\ UNCHANGED odoo
           ELSE /\ odoo' = [odoo EXCEPT !.partners = @ \cup {Vat(f.cfdi_uuid)}]
                /\ ow' = [ow EXCEPT ![w].pc = "invoice",
                                    ![w].creates = IF found THEN @ ELSE @ + 1]
                /\ UNCHANGED <<syncLogs, connections>>
        /\ UNCHANGED odooUnch

\* steps 6-7: _prepare_invoice_lines, _create_invoice_base; the invoice is
\* created without the UUID, its ref is the serie and folio of the document
\* (one per document here)
sync_cfdi_to_odoo_invoice(w, fault) ==
    LET f == ow[w]
    IN  /\ f.pc = "invoice"
        /\ fault => OdooFaults < MaxOdooFaults
        /\ IF fault THEN SyncError(w, f) /\ UNCHANGED odoo
           ELSE /\ odoo' = [odoo EXCEPT !.moves = Append(@, [company_id |-> connections.odoo_company_id,
                                                             ref |-> f.cfdi_uuid,
                                                             posted |-> FALSE])]
                /\ ow' = [ow EXCEPT ![w].pc = "attachment", ![w].creates = @ + 1,
                                    ![w].invoice_id = Len(odoo.moves) + 1]
                /\ UNCHANGED <<syncLogs, connections>>
        /\ UNCHANGED odooUnch

\* step 8: client.create_cfdi_attachment
sync_cfdi_to_odoo_attachment(w, fault) ==
    LET f == ow[w]
    IN  /\ f.pc = "attachment"
        /\ fault => OdooFaults < MaxOdooFaults
        /\ IF fault THEN SyncError(w, f) /\ UNCHANGED odoo
           ELSE /\ odoo' = [odoo EXCEPT !.attachments = Append(@, [res_id |-> f.invoice_id,
                                                                   cfdi_uuid |-> f.cfdi_uuid])]
                /\ ow' = [ow EXCEPT ![w].pc = "document", ![w].creates = @ + 1,
                                    ![w].attachment_id = Len(odoo.attachments) + 1]
                /\ UNCHANGED <<syncLogs, connections>>
        /\ UNCHANGED odooUnch

\* steps 9-10 and the log: create_l10n_mx_edi_document and post_invoice catch
\* OdooClientError themselves
sync_cfdi_to_odoo_document(w, fault) ==
    LET f == ow[w]
    IN  /\ f.pc = "document"
        /\ fault => OdooFaults < MaxOdooFaults
        /\ IF fault THEN
                /\ connections' = [connections EXCEPT !.faults = @ + 1, !.last_sync = @ + 1]
                /\ odoo' = [odoo EXCEPT !.moves[f.invoice_id].posted = TRUE]
                /\ ow' = [ow EXCEPT ![w] = [f EXCEPT !.pc = "done", !.creates = @ + 2,
                              !.result = [status |-> "created", odoo_invoice_id |-> f.invoice_id]]]
           ELSE /\ connections' = [connections EXCEPT !.last_sync = @ + 1]
                /\ odoo' = [odoo EXCEPT !.documents = Append(@, [move_id |-> f.invoice_id,
                                                                 attachment_id |-> f.attachment_id]),
                                        !.moves[f.invoice_id].posted = TRUE]
                /\ ow' = [ow EXCEPT ![w] = [f EXCEPT !.pc = "done", !.creates = @ + 2,
                              !.doc_id = Len(odoo.documents) + 1,
                              !.result = [status |-> "created", odoo_invoice_id |-> f.invoice_id]]]
        /\ syncLogs' = SetLog(f.sync_log, "success", f.invoice_id, "created")
        /\ UNCHANGED odooUnch

InitOdoo ==
    /\ cfdiDocs = <<>>
    /\ stateChecks = <<>>
    /\ auditLog = <<>>
    /\ clock = 1
    /\ vw = [w \in Workers |-> IdleFrame]
    /\ requests = <<>>
    /\ packages = <<>>
    /\ queue = EmptyBag
    /\ sat = <<>>
    /\ tw = [w \in Workers |-> IdleTask]
    /\ hist = <<>>
    /\ odoo = [moves |-> <<>>, attachments |-> <<>>, documents |-> <<>>, partners |-> {}]
    /\ syncLogs = <<>>
    /\ connections = [odoo_company_id |-> 1, last_error |-> FALSE, last_sync |-> 0, faults |-> 0]
    /\ ow = [w \in OdooWorkers |-> IdleSync]
    /\ NoCertificates
    /\ NoParses
    /\ NoSettings
    /\ NoCalls

NextOdoo ==
    \E w \in OdooWorkers :
        \/ \E cfdi_uuid \in CfdiUuids, xml_content \in BOOLEAN :
              sync_cfdi_to_odoo_call(w, cfdi_uuid, xml_content)
        \/ \E fault \in BOOLEAN : sync_cfdi_to_odoo_lookup(w, fault)
        \/ \E fault \in BOOLEAN : sync_cfdi_to_odoo_partner(w, fault)
        \/ \E fault \in BOOLEAN : sync_cfdi_to_odoo_invoice(w, fault)
        \/ \E fault \in BOOLEAN : sync_cfdi_to_odoo_attachment(w, fault)
        \/ \E fault \in BOOLEAN : sync_cfdi_to_odoo_document(w, fault)

SpecOdoo == InitOdoo /\ [][NextOdoo]_vars

\* The call before the one in f was for the same document and created its
\* invoice in the external system or found it there.
Reconciled(f) ==
    /\ f.prev.cfdi_uuid = f.cfdi_uuid
    /\ \/ f.prev.result.status \in {"created", "exists"}
       \/ f.prev.invoice_id # 0

\* C8: when sync_cfdi_to_odoo is called twice in a row for the same document
\* on the same connection, the second call returns exists with the external
\* invoice id, makes no create or write call and closes its log as success.
\* Stated for a first call that reconciled the document and a second call
\* that is given the XML and that the external system answers throughout.
C8_SecondCallExists ==
    \A w \in OdooWorkers :
        LET f == ow[w]
        IN  (f.pc = "done" /\ Reconciled(f) /\ f.xml_content /\ f.faults = 0) =>
                /\ f.result.status = "exists"
                /\ f.result.odoo_invoice_id # 0
                /\ f.creates = 0
                /\ syncLogs[f.sync_log].status = "success"

(***************************************************************************)
(* Credentials: CertificateUploadMixin.process_certificate                 *)
(* (apps/fiscal/views.py), CfdiCertificate (apps/fiscal/models.py) and     *)
(* SATClient.__init__ (apps/integrations/sat/client.py).                   *)
(***************************************************************************)
MaxCertificates == 3   \* credentials uploaded over a run of the model
MaxClock == 3          \* how far the time advances

\* CfdiCertificate.TIPO_CHOICES
TIPO_CHOICES == {"CSD", "FIEL"}

\* CfdiCertificate.objects.create(company, tipo, status='active', ...)
NewCertificate(company, tipo, valid_from, valid_to) ==
    [company |-> company, tipo |-> tipo, status |-> "active",
     valid_from |-> valid_from, valid_to |-> valid_to]

IdleUpload == [pc |-> "idle", company |-> 0, tipo |-> None, valid_to |-> 0]

certUnch == <<smVars, acqVars, odooVars, parserVars, settings, rpc>>

\* Uploads begun: the rows created and the requests between their two writes.
Uploads == Len(certificates) + Cardinality({w \in Workers : cw[w].pc = "create"})

\* CfdiCertificate.is_valid: active and valid_from <= now <= valid_to
is_valid(c) ==
    /\ certificates[c].status = "active"
    /\ certificates[c].valid_from <= clock
    /\ clock <= certificates[c].valid_to

\* process_certificate up to its first write.  The form has checked that the
\* certificate is in force today (utils.py 94-95); the rows of the tenant
\* and kind that are active are set to expired in one UPDATE.
process_certificate_update(w, empresa, tipo, valid_to) ==
    /\ cw[w].pc = "idle"
    /\ Uploads < MaxCertificates
    /\ clock <= valid_to
    /\ certificates' = [c \in DOMAIN certificates |->
                          IF /\ certificates[c].company = empresa
                             /\ certificates[c].tipo = tipo
                             /\ certificates[c].status = "active"
                          THEN [certificates[c] EXCEPT !.status = "expired"]
                          ELSE certificates[c]]
    /\ cw' = [cw EXCEPT ![w] = [pc |-> "create", company |-> empresa,
                                tipo |-> tipo, valid_to |-> valid_to]]
    /\ UNCHANGED <<contacts, certUnch>>

\* CfdiCertificate.objects.create(..., status='active', ...); set_password;
\* save().  The two writes of process_certificate are not in a transaction.
process_certificate_create(w) ==
    /\ cw[w].pc = "create"
    /\ certificates' = Append(certificates,
                              NewCertificate(cw[w].company, cw[w].tipo, 1, cw[w].valid_to))
    /\ cw' = [cw EXCEPT ![w] = IdleUpload]
    /\ UNCHANGED <<contacts, certUnch>>

\* Time passes; no task of the system revises the status of a credential.
Tick ==
    /\ clock < MaxClock
    /\ clock' = clock + 1
    /\ UNCHANGED <<cfdiDocs, stateChecks, auditLog, vw, acqVars, odooVars, certVars, parserVars, settings, rpc>>

\* SATClient(certificate): ValueError unless tipo is FIEL and status is
\* active; then _load_signer builds the signer and the service, with which
\* the caller goes to the authority.
SATClient_init(c) ==
    /\ IF certificates[c].tipo = "FIEL" /\ certificates[c].status = "active"
       THEN contacts' = contacts \cup {[certificate |-> c, tipo |-> certificates[c].tipo,
                                        is_valid |-> is_valid(c)]}
       ELSE UNCHANGED contacts
    /\ UNCHANGED <<certificates, cw, certUnch>>

InitCert ==
    /\ cfdiDocs = <<>>
    /\ stateChecks = <<>>
    /\ auditLog = <<>>
    /\ clock = 1
    /\ vw = [w \in Workers |-> IdleFrame]
    /\ requests = <<>>
    /\ packages = <<>>
    /\ queue = EmptyBag
    /\ sat = <<>>
    /\ tw = [w \in Workers |-> IdleTask]
    /\ hist = <<>>
    /\ odoo = <<>>
    /\ syncLogs = <<>>
    /\ connections = <<>>
    /\ ow = <<>>
    /\ certificates = <<>>
    /\ cw = [w \in Workers |-> IdleUpload]
    /\ contacts = {}
    /\ NoParses
    /\ NoSettings
    /\ NoCalls

NextCert ==
    \/ Tick
    \/ \E c \in DOMAIN certificates : SATClient_init(c)
    \/ \E w \in Workers :
        \/ \E empresa \in Empresas, tipo \in TIPO_CHOICES, valid_to \in 1..MaxClock :
              process_certificate_update(w, empresa, tipo, valid_to)
        \/ process_certificate_create(w)

SpecCert == InitCert /\ [][NextCert]_vars

\* The active credentials of a tenant and kind, and whether an upload for
\* them is between its two writes.
ActiveOf(empresa, tipo) ==
    {c \in DOMAIN certificates : /\ certificates[c].company = empresa
                                 /\ certificates[c].tipo = tipo
                                 /\ certificates[c].status = "active"}

Uploading(empresa, tipo) ==
    \E w \in Workers : cw[w].pc = "create" /\ cw[w].company = empresa /\ cw[w].tipo = tipo

\* C18: every tenant and kind with an uploaded credential has exactly one
\* active credential, concurrent uploads included: never two, and one as
\* soon as no upload for them is under way.
C18_OneActiveCredential ==
    \A empresa \in Empresas, tipo \in TIPO_CHOICES :
        /\ Cardinality(ActiveOf(empresa, tipo)) <= 1
        /\ (\E c \in DOMAIN certificates : /\ certificates[c].company = empresa
                                           /\ certificates[c].tipo = tipo)
           /\ ~Uploading(empresa, tipo)
             => Cardinality(ActiveOf(empresa, tipo)) = 1

\* C19: a credential is used to authenticate with the authority only if it
\* is of the advanced-signature kind (FIEL) and in force at that moment.
C19_OnlyValidFielAuthenticates ==
    \A k \in contacts : k.tipo = "FIEL" /\ k.is_valid

(***************************************************************************)
(* The tenant reset, ResetCfdisView.post (apps/fiscal/views.py), next to   *)
(* the document state machine.  Every document of the model belongs to     *)
(* tenant 1, so the rows kept by a reset keep their primary keys.          *)
(***************************************************************************)
ResetCfdisView_post(w, empresa, confirmar) ==
    LET OtherCheck(row) == cfdiDocs[row.document].company # empresa
        OtherDocument(row) == row.company # empresa
        OtherPackage(row) == requests[row.request].company # empresa
    IN  /\ vw[w].pc = "idle"
        /\ IF confirmar THEN
                /\ stateChecks' = SelectSeq(stateChecks, OtherCheck)
                /\ cfdiDocs' = SelectSeq(cfdiDocs, OtherDocument)
                /\ packages' = SelectSeq(packages, OtherPackage)
                /\ requests' = SelectSeq(requests, OtherDocument)
           ELSE UNCHANGED <<stateChecks, cfdiDocs, packages, requests>>
        /\ UNCHANGED <<auditLog, clock, vw, queue, sat, tw, hist, odooVars, certVars, parserVars, settings, rpc>>

NextReset ==
    \/ Next
    \/ \E empresa \in Empresas, confirmar \in BOOLEAN : ResetCfdisView_post(1, empresa, confirmar)

SpecReset == Init /\ [][NextReset]_vars

\* Every row of the ledger is still there after the step, and as it was.
LedgerKept ==
    \A i \in DOMAIN stateChecks :
        i \in DOMAIN stateChecks' /\ stateChecks'[i] = stateChecks[i]

\* C20: StatusCheck rows are never mutated and never deleted: under every
\* operation of the system the rows of a document stay, field by field.
C20_StateChecksAppendOnly == [][LedgerKept]_vars

(***************************************************************************)
(* SpecVerify: verifications that overlap.  Two web workers run the        *)
(* operator's single-document check and update_state at the same time,     *)
(* each on the instance it loaded.                                         *)
(***************************************************************************)
NextVerify ==
    \E w \in Workers :
        \/ \E d \in DOMAIN cfdiDocs, nuevo \in ESTADO_SAT_CHOICES,
              canc \in UpdateStateCancelaciones, source \in UpdateStateSources :
                update_state_call(w, d, nuevo, canc, source)
        \/ update_state_create(w)
        \/ update_state_save(w)
        \/ update_state_audit(w)
        \/ \E d \in DOMAIN cfdiDocs, ans \in SatAnswers : ValidarEstadoCfdiView_call(w, d, ans)
        \/ ValidarEstadoCfdiView_create(w)
        \/ ValidarEstadoCfdiView_save(w)
        \/ Return(w)

SpecVerify == Init /\ [][NextVerify]_vars

\* A step that changes a document's cached status leaves a state check of
\* that document with that status in the ledger.
CacheWriteHasCheck ==
    \A d \in DOMAIN cfdiDocs :
        cfdiDocs'[d].estado_sat # cfdiDocs[d].estado_sat =>
            \E i \in DOMAIN stateChecks' :
                /\ stateChecks'[i].document = d
                /\ stateChecks'[i].estado_sat = cfdiDocs'[d].estado_sat

\* C21: in every verification path the state check is appended before the
\* document's cache fields are overwritten, so a reader never sees a cached
\* status written by a verification for which no state check of the document
\* with that status exists.
C21_CheckBeforeCache == [][CacheWriteHasCheck]_vars

(***************************************************************************)
(* SpecSave: CfdiDocument.save with its business-rule validation           *)
(* (apps/fiscal/models.py, clean and save).  A caller builds a document    *)
(* or changes the payment fields of a stored one, then saves it.           *)
(***************************************************************************)
MaxDocuments == 2   \* documents inserted over a run of the model

\* CfdiDocument.METODO_PAGO_CHOICES
METODO_PAGO_CHOICES == {"PUE", "PPD"}

\* What a caller can put in metodo_pago: a choice, '' or None.
MetodosPago == METODO_PAGO_CHOICES \cup {"", None}

\* Table FormaPago as the catalogue holds it; a document's forma_pago is a
\* row's pk, 0 for NULL.
FormaPago == << [clave |-> "99"], [clave |-> "03"], [clave |-> "01"] >>

\* A document row with its payment fields.
PaymentDocument(uuid, metodo_pago, forma_pago) ==
    [metodo_pago |-> metodo_pago, forma_pago |-> forma_pago] @@ NewCfdiDocument(1, uuid, 0, 0)

\* The instance of row d, payment fields included.
PaymentInstance(d) ==
    [metodo_pago |-> cfdiDocs[d].metodo_pago, forma_pago |-> cfdiDocs[d].forma_pago]
        @@ Instance(d)

\* clean() that rejects code 99 whatever the payment method.
clean_any_method(obj) ==
    obj.metodo_pago \notin {"", None} /\ obj.forma_pago # 0
        /\ FormaPago[obj.forma_pago].clave = "99"

\* CfdiDocument.clean(): TRUE when it raises ValidationError.
\*   if self.metodo_pago and self.forma_pago:
\*       if self.metodo_pago == 'PUE' and forma_pago_clave == '99': raise
clean(obj) ==
    obj.metodo_pago \notin {"", None} /\ obj.forma_pago # 0
        /\ obj.metodo_pago = "PUE" /\ FormaPago[obj.forma_pago].clave = "99"

\* CfdiDocument(uuid=..., metodo_pago=..., forma_pago=...): not yet stored.
CfdiDocument_new(w, metodo_pago, forma_pago) ==
    /\ vw[w].pc = "idle"
    /\ Len(cfdiDocs) < MaxDocuments
    /\ vw' = [vw EXCEPT ![w] =
           [IdleFrame EXCEPT !.kind = "save", !.pc = "save",
               !.cfdi = [id |-> 0] @@ PaymentDocument(Len(cfdiDocs) + 1, metodo_pago, forma_pago)]]
    /\ UNCHANGED <<cfdiDocs, stateChecks, auditLog, clock, notSM>>

\* A stored document is loaded and its payment fields are assigned.
CfdiDocument_edit(w, d, metodo_pago, forma_pago) ==
    /\ vw[w].pc = "idle"
    /\ vw' = [vw EXCEPT ![w] =
           [IdleFrame EXCEPT !.kind = "save", !.pc = "save",
               !.cfdi = [id |-> d] @@ [cfdiDocs[d] EXCEPT !.metodo_pago = metodo_pago,
                                                         !.forma_pago = forma_pago]]]
    /\ UNCHANGED <<cfdiDocs, stateChecks, auditLog, clock, notSM>>

\* The row an instance is stored as.
RowOf(obj) == [k \in DOMAIN obj \ {"id"} |-> obj[k]]

\* save(): self.clean(), then super().save() inserts or updates the row.
CfdiDocument_save(w) ==
    LET f == vw[w]
    IN  /\ f.pc = "save"
        /\ IF clean(f.cfdi)
           THEN /\ vw' = [vw EXCEPT ![w].pc = "done", ![w].response = "ValidationError"]
                /\ UNCHANGED cfdiDocs
           ELSE IF f.cfdi.id = 0
           THEN /\ cfdiDocs' = Append(cfdiDocs, RowOf(f.cfdi))
                /\ vw' = [vw EXCEPT ![w].pc = "done", ![w].response = "ok",
                                    ![w].cfdi = [id |-> Len(cfdiDocs) + 1] @@ f.cfdi]
           ELSE /\ cfdiDocs' = [cfdiDocs EXCEPT ![f.cfdi.id] = RowOf(f.cfdi)]
                /\ vw' = [vw EXCEPT ![w].pc = "done", ![w].response = "ok"]
        /\ UNCHANGED <<stateChecks, auditLog, clock, notSM>>

InitSave ==
    /\ cfdiDocs = <<>>
    /\ stateChecks = <<>>
    /\ auditLog = <<>>
    /\ clock = 1
    /\ vw = [w \in Workers |-> IdleFrame]
    /\ requests = <<>>
    /\ packages = <<>>
    /\ queue = <<>>
    /\ sat = <<>>
    /\ tw = <<>>
    /\ hist = <<>>
    /\ odoo = <<>>
    /\ syncLogs = <<>>
    /\ connections = <<>>
    /\ ow = <<>>
    /\ NoCertificates
    /\ NoParses
    /\ NoSettings
    /\ NoCalls

\* One caller at a time.
NextSave ==
    \E w \in {1} :
        \/ \E metodo_pago \in MetodosPago, forma_pago \in 0..Len(FormaPago) :
                CfdiDocument_new(w, metodo_pago, forma_pago)
        \/ \E d \in DOMAIN cfdiDocs, metodo_pago \in MetodosPago, forma_pago \in 0..Len(FormaPago) :
                CfdiDocument_edit(w, d, metodo_pago, forma_pago)
        \/ CfdiDocument_save(w)
        \/ Return(w)

SpecSave == InitSave /\ [][NextSave]_vars

\* The save of worker w that this step runs: it is rejected exactly for PUE
\* with code 99; rejected, it leaves the table and the instance as they
\* were; accepted, the row holds the instance's fields.
SaveStep(w) ==
    LET obj == vw[w].cfdi
        pue99 == obj.metodo_pago = "PUE" /\ obj.forma_pago # 0
                    /\ FormaPago[obj.forma_pago].clave = "99"
        rejected == vw'[w].response = "ValidationError"
        pk == vw'[w].cfdi.id
    IN  (vw[w].pc = "save" /\ vw'[w].pc = "done") =>
            /\ rejected <=> pue99
            /\ rejected => cfdiDocs' = cfdiDocs /\ vw'[w].cfdi = obj
            /\ ~rejected =>
                  /\ vw'[w].response = "ok"
                  /\ pk \in DOMAIN cfdiDocs'
                  /\ cfdiDocs'[pk].metodo_pago = obj.metodo_pago
                  /\ cfdiDocs'[pk].forma_pago = obj.forma_pago
                  /\ \A d \in DOMAIN cfdiDocs : d # pk => cfdiDocs'[d] = cfdiDocs[d]

SavesFollowRule == \A w \in Workers : SaveStep(w)

\* C22: saving a document fails with a validation error exactly when its
\* payment method is PUE and its payment form is code 99; PUE with another
\* code, PPD with any code, 99 included, and no payment method all save; a
\* rejected save persists nothing and corrects no field.
C22_PueRejectsUndefinedForm == [][SavesFollowRule]_vars

\* A stored PPD document with code 99 was changed to PUE and its save was
\* rejected, next to a stored document without payment method.
C22_Witness ==
    \E w \in Workers :
        /\ vw[w].pc = "done" /\ vw[w].kind = "save"
        /\ vw[w].response = "ValidationError"
        /\ vw[w].cfdi.id # 0
        /\ cfdiDocs[vw[w].cfdi.id].metodo_pago = "PPD"
        /\ cfdiDocs[vw[w].cfdi.id].forma_pago # 0
        /\ FormaPago[cfdiDocs[vw[w].cfdi.id].forma_pago].clave = "99"
        /\ \E d \in DOMAIN cfdiDocs : cfdiDocs[d].metodo_pago = None

(***************************************************************************)
(* Claims about failures during reconciliation.                            *)
(***************************************************************************)
\* In a step where a call of worker w to the external system fails, the
\* attempt ends there: nothing more is written to the external system and
\* the result and the sync log are closed as error.
FailureEndsAttempt(w) ==
    LET f == ow[w]
    IN  (connections'.faults > connections.faults /\ ow'[w] # f) =>
            /\ odoo' = odoo
            /\ ow'[w].pc = "done"
            /\ ow'[w].result.status = "error"
            /\ syncLogs'[f.sync_log].status = "error"

FailuresEndAttempts == \A w \in OdooWorkers : FailureEndsAttempt(w)

\* C24: if any step of reconciling a document fails (partner lookup or
\* creation, tax mapping, invoice creation, payload attachment, posting-state
\* record, posting), none of the later steps is executed for that document
\* and the attempt's outcome is recorded as an error.
C24_FailedStepEndsAttempt == [][FailuresEndAttempts]_vars

(***************************************************************************)
(* SpecBatch: the batch reconciliation task sync_new_cfdis_to_odoo         *)
(* (apps/fiscal/odoo/tasks.py).  ow[0] holds the task's locals, ow[1] the  *)
(* call of sync_cfdi_to_odoo it has made for the document at hand.         *)
(***************************************************************************)
BATCH_LIMIT == 50   \* cfdis = cfdis_qs[:50]

IdleBatch ==
    [pc |-> "idle", todo |-> <<>>, batch |-> {}, outcomes |-> <<>>, failed |-> {},
     synced |-> 0, exists |-> 0, errors |-> 0, total |-> 0, status |-> None]

\* A stored document with what the batch reads and writes of it.
SyncDocument(uuid) ==
    [creado_en_sistema |-> FALSE] @@ NewCfdiDocument(1, uuid, 1, 0)

\* uuids with a success log on the connection
synced_uuids == {syncLogs[i].cfdi_uuid : i \in {x \in DOMAIN syncLogs : syncLogs[x].status = "success"}}

\* The connection is looked up, the documents not yet synced are selected.
sync_new_cfdis_to_odoo_start(empresa) ==
    LET cfdis == Take(SeqOfSet({d \in DOMAIN cfdiDocs :
                                   /\ cfdiDocs[d].company = empresa
                                   /\ cfdiDocs[d].uuid \notin synced_uuids}), BATCH_LIMIT)
    IN  /\ ow[0].pc = "idle"
        /\ Len(syncLogs) + Len(cfdis) <= MaxSyncs
        /\ connections.last_sync < MaxSyncs
        /\ ow' = [ow EXCEPT ![0] =
               IF /\ connections.empresa = empresa
                  /\ connections.status = "active" /\ connections.auto_sync_enabled
               THEN [IdleBatch EXCEPT !.pc = "loop", !.todo = cfdis,
                                      !.batch = {cfdis[i] : i \in DOMAIN cfdis},
                                      !.outcomes = [d \in {cfdis[i] : i \in DOMAIN cfdis} |-> None],
                                      !.total = Len(cfdis)]
               ELSE [IdleBatch EXCEPT !.pc = "done", !.status = "skipped"]]
        /\ UNCHANGED <<odoo, syncLogs, connections, odooUnch>>

\* The document at hand is done with outcome status; on to the next one.
BatchRecord(b, status, failed) ==
    [b EXCEPT !.todo = Tail(@),
              !.outcomes[Head(b.todo)] = status,
              !.failed = IF failed THEN @ \cup {Head(b.todo)} ELSE @,
              !.synced = IF status = "created" THEN @ + 1 ELSE @,
              !.exists = IF status = "exists" THEN @ + 1 ELSE @,
              !.errors = IF status \notin {"created", "exists"} THEN @ + 1 ELSE @]

\* The XML is read from storage (xml_content stays None when that fails) and
\* service.sync_cfdi_to_odoo is called; it raises before its own try block
\* when the client cannot be created.
sync_new_cfdis_to_odoo_call(xml_content, raises) ==
    LET b == ow[0]
    IN  /\ b.pc = "loop" /\ b.todo # <<>>
        /\ ow[1].pc = "idle"
        /\ raises => OdooFaults < MaxOdooFaults
        /\ IF raises
           THEN /\ ow' = [ow EXCEPT ![0] = BatchRecord(b, "error", TRUE)]
                /\ connections' = [connections EXCEPT !.faults = @ + 1]
                /\ UNCHANGED <<odoo, syncLogs, odooUnch>>
           ELSE sync_cfdi_to_odoo_call(1, cfdiDocs[Head(b.todo)].uuid, xml_content)

\* The loop that gives up at the first document that fails.
sync_new_cfdis_to_odoo_result_abort ==
    LET b == ow[0]
        result == ow[1].result
    IN  /\ b.pc = "loop" /\ ow[1].pc = "done"
        /\ ow' = [ow EXCEPT ![1] = IdleSync,
                            ![0] = IF result.status \in {"created", "exists"}
                                   THEN BatchRecord(b, result.status, FALSE)
                                   ELSE [BatchRecord(b, result.status, TRUE) EXCEPT !.todo = <<>>]]
        /\ cfdiDocs' = IF result.status \in {"created", "exists"}
                       THEN [cfdiDocs EXCEPT ![Head(b.todo)].creado_en_sistema = TRUE]
                       ELSE cfdiDocs
        /\ UNCHANGED <<odoo, syncLogs, connections, stateChecks, auditLog, clock, vw,
                       acqVars, certVars, parserVars, settings, rpc>>

\* The call has returned: the counters are updated and a created or existing
\* document is flagged creado_en_sistema.
sync_new_cfdis_to_odoo_result ==
    LET b == ow[0]
        result == ow[1].result
        failed == ow[1].faults > 0 \/ ~ow[1].xml_content
    IN  /\ b.pc = "loop" /\ ow[1].pc = "done"
        /\ ow' = [ow EXCEPT ![1] = IdleSync,
                            ![0] = BatchRecord(b, result.status,
                                               failed /\ result.status = "error")]
        /\ cfdiDocs' = IF result.status \in {"created", "exists"}
                       THEN [cfdiDocs EXCEPT ![Head(b.todo)].creado_en_sistema = TRUE]
                       ELSE cfdiDocs
        /\ UNCHANGED <<odoo, syncLogs, connections, stateChecks, auditLog, clock, vw,
                       acqVars, certVars, parserVars, settings, rpc>>

\* connection.last_sync = timezone.now(); connection.save(); the summary
sync_new_cfdis_to_odoo_return ==
    LET b == ow[0]
    IN  /\ b.pc = "loop" /\ b.todo = <<>> /\ ow[1].pc = "idle"
        /\ connections' = [connections EXCEPT !.last_sync = @ + 1]
        /\ ow' = [ow EXCEPT ![0].pc = "done", ![0].status = "completed"]
        /\ UNCHANGED <<odoo, syncLogs, odooUnch>>

\* The worker takes the next task.
sync_new_cfdis_to_odoo_next ==
    /\ ow[0].pc = "done"
    /\ ow' = [ow EXCEPT ![0] = [IdleBatch EXCEPT !.failed = ow[0].failed]]
    /\ UNCHANGED <<odoo, syncLogs, connections, odooUnch>>

InitBatch ==
    /\ cfdiDocs = << SyncDocument(1), SyncDocument(2) >>
    /\ stateChecks = <<>>
    /\ auditLog = <<>>
    /\ clock = 1
    /\ vw = [w \in Workers |-> IdleFrame]
    /\ requests = <<>>
    /\ packages = <<>>
    /\ queue = EmptyBag
    /\ sat = <<>>
    /\ tw = [w \in Workers |-> IdleTask]
    /\ hist = <<>>
    /\ odoo = [moves |-> <<>>, attachments |-> <<>>, documents |-> <<>>, partners |-> {}]
    /\ syncLogs = <<>>
    /\ connections = [odoo_company_id |-> 1, last_error |-> FALSE, last_sync |-> 0, faults |-> 0,
                      empresa |-> 1, status |-> "active", auto_sync_enabled |-> TRUE]
    /\ ow = [w \in {0, 1} |-> IF w = 0 THEN IdleBatch ELSE IdleSync]
    /\ NoCertificates
    /\ NoParses
    /\ NoSettings
    /\ NoCalls

NextBatch ==
    \/ \E empresa \in Empresas : sync_new_cfdis_to_odoo_start(empresa)
    \/ \E xml_content, raises \in BOOLEAN : sync_new_cfdis_to_odoo_call(xml_content, raises)
    \/ \E fault \in BOOLEAN : sync_cfdi_to_odoo_lookup(1, fault)
    \/ \E fault \in BOOLEAN : sync_cfdi_to_odoo_partner(1, fault)
    \/ \E fault \in BOOLEAN : sync_cfdi_to_odoo_invoice(1, fault)
    \/ \E fault \in BOOLEAN : sync_cfdi_to_odoo_attachment(1, fault)
    \/ \E fault \in BOOLEAN : sync_cfdi_to_odoo_document(1, fault)
    \/ sync_new_cfdis_to_odoo_result
    \/ sync_new_cfdis_to_odoo_return
    \/ sync_new_cfdis_to_odoo_next

SpecBatch == InitBatch /\ [][NextBatch]_vars

\* C23: a reconciliation failure for one document leaves the connection's
\* status as it was (the connection is not disabled) and neither prevents nor
\* alters the reconciliation of the other documents of the batch: when the
\* batch returns every document of it has been attempted, and every document
\* whose own attempt did not fail is created or found in the external system,
\* with a success log and flagged creado_en_sistema.
C23_FailureIsolatedInBatch ==
    LET b == ow[0]
    IN  /\ connections.status = "active"
        /\ (b.pc = "done" /\ b.status = "completed") =>
              /\ b.synced + b.exists + b.errors = b.total
              /\ \A d \in b.batch :
                    /\ b.outcomes[d] # None
                    /\ d \notin b.failed =>
                          /\ b.outcomes[d] \in {"created", "exists"}
                          /\ cfdiDocs[d].creado_en_sistema
                          /\ cfdiDocs[d].uuid \in synced_uuids
                          /\ find_invoice_by_uuid_extended(cfdiDocs[d].uuid,
                                                           connections.odoo_company_id) # 0

\* A batch of two documents has returned: the first failed, the second was
\* created.
C23_Witness ==
    LET b == ow[0]
    IN  /\ b.pc = "done" /\ b.total = 2
        /\ b.outcomes[1] = "error" /\ 1 \in b.failed
        /\ connections.last_error
        /\ b.outcomes[2] = "created"
        /\ b.errors = 1 /\ b.synced = 1

(***************************************************************************)
(* SpecXml: CFDIParser.parse (apps/fiscal/cfdi_parser.py) applied to a     *)
(* sequence of payloads in one process.  A payload is described by what    *)
(* parse reads of it.                                                      *)
(***************************************************************************)
MaxParses == 2   \* calls of parse over a run of the model

\* CFDIParser.NS as the class defines it
NS_cfdi == "http://www.sat.gob.mx/cfd/4"
NS_cfdi3 == "http://www.sat.gob.mx/cfd/3"

\* Version attribute of the payloads: the two supported ones and an old one.
Versions == {"4.0", "3.3", "3.2"}

\* The namespace the elements of a payload of that version are in.
Xmlns(version) ==
    IF version = "4.0" THEN NS_cfdi
    ELSE IF version = "3.3" THEN NS_cfdi3
    ELSE "http://www.sat.gob.mx/cfd/2"

\* The state of a part of the payload: there and well-formed, there without
\* its value (or with one that does not parse), or not there.
Parts == {"ok", "bad", "absent"}

Payloads ==
    [ version : Versions,
      emisor : Parts,        \* Emisor with Rfc; Emisor without Rfc; no Emisor
      receptor : {"ok", "absent"},
      timbre : Parts,        \* TimbreFiscalDigital with UUID; without UUID; none
      fecha : Parts,         \* Fecha in ISO format; not a date; no Fecha
      total : Parts ]        \* Total a decimal; not a number; no Total

\* str.upper() of the UUID of the model's stamps
Upper(uuid) == IF uuid = "a1b2" THEN "A1B2" ELSE uuid

CFDIParseError(message) ==
    [ok |-> FALSE, error |-> message, uuid |-> None, version |-> None,
     rfc_emisor |-> None, rfc_receptor |-> None, fecha_emision |-> None, total |-> None]

\* _parse_datetime(root.get('Fecha'))
parse_datetime(part) == IF part = "ok" THEN "2024-01-15T10:30:00" ELSE None

\* _to_decimal(root.get('Total', '0'))
to_decimal(part) ==
    IF part = "ok" THEN "1000.00" ELSE IF part = "absent" THEN "0" ELSE None

\* What parse returns for payload xml when 'cfdi' is bound to namespace ns
\* in CFDIParser.NS.
parse(xml, ns) ==
    LET ns_cfdi == IF xml.version = "4.0" THEN ns ELSE NS_cfdi3
        found == Xmlns(xml.version) = ns_cfdi
        emisor == found /\ xml.emisor # "absent"
        receptor == found /\ xml.receptor # "absent"
        complemento == found /\ xml.timbre # "absent"
        uuid == IF ~complemento THEN None
                ELSE IF xml.timbre = "ok" THEN Upper("a1b2") ELSE ""
    IN  IF xml.version \notin {"4.0", "3.3"} THEN CFDIParseError("version")
        ELSE IF ~emisor \/ ~receptor THEN CFDIParseError("incompleto")
        ELSE IF uuid \in {None, ""} THEN CFDIParseError("sin UUID")
        ELSE [ok |-> TRUE, error |-> None, uuid |-> uuid, version |-> xml.version,
              rfc_emisor |-> IF xml.emisor = "ok" THEN "EMI010101AAA" ELSE "",
              rfc_receptor |-> "REC010101AAA",
              fecha_emision |-> parse_datetime(xml.fecha),
              total |-> to_decimal(xml.total)]

\* parser.parse(xml_content) on instance parser: for version 3.3 the class's
\* table is rebound, self.NS['cfdi'] = self.NS['cfdi3'].
CFDIParser_call(parser, xml) ==
    /\ Len(parses) < MaxParses
    /\ parses' = Append(parses, [parser |-> parser, xml |-> xml, result |-> parse(xml, NS)])
    /\ NS' = IF xml.version = "3.3" THEN NS_cfdi3 ELSE NS
    /\ UNCHANGED <<smVars, acqVars, odooVars, certVars, settings, rpc>>

InitXml ==
    /\ cfdiDocs = <<>>
    /\ stateChecks = <<>>
    /\ auditLog = <<>>
    /\ clock = 1
    /\ vw = <<>>
    /\ requests = <<>>
    /\ packages = <<>>
    /\ queue = <<>>
    /\ sat = <<>>
    /\ tw = <<>>
    /\ hist = <<>>
    /\ odoo = <<>>
    /\ syncLogs = <<>>
    /\ connections = <<>>
    /\ ow = <<>>
    /\ NoCertificates
    /\ NoParses
    /\ NoSettings
    /\ NoCalls

NextXml == \E parser \in {1, 2}, xml \in Payloads : CFDIParser_call(parser, xml)

SpecXml == InitXml /\ [][NextXml]_vars

\* C25: parse is pure: in any sequence of parse calls in one process, over
\* documents of either supported version in any order, the result for a
\* payload is the one it has when parsed alone, and a parse changes no state
\* that a later parse of this or another instance reads.
C25_ParseIsPure ==
    /\ NS = NS_cfdi
    /\ \A i \in DOMAIN parses : parses[i].result = parse(parses[i].xml, NS_cfdi)

\* The payload has one of the defects parse is to reject.
Defective(xml) ==
    \/ xml.version \notin {"4.0", "3.3"}
    \/ xml.timbre # "ok"
    \/ xml.emisor # "ok" \/ xml.receptor # "ok"
    \/ xml.fecha # "ok" \/ xml.total # "ok"

\* C26: parse raises a parse error for every payload with an unsupported
\* version, without the stamp, or with a mandatory attribute (issuer,
\* recipient, issue date, totals) missing or unparseable; it never returns a
\* document in which a mandatory field is absent or defaulted.  Stated for
\* the first parse of a process.
C26_DefectivePayloadRejected ==
    Len(parses) >= 1 =>
        LET xml == parses[1].xml
            result == parses[1].result
        IN  /\ Defective(xml) => ~result.ok
            /\ result.ok =>
                  /\ result.uuid \notin {None, ""}
                  /\ result.rfc_emisor \notin {None, ""}
                  /\ result.rfc_receptor \notin {None, ""}
                  /\ result.fecha_emision # None
                  /\ result.total \notin {None, "0"}

(***************************************************************************)
(* SpecSweep: the revalidation sweep as celery beat runs it, once every    *)
(* 24 hours (config/celery.py), on documents of every age and status.      *)
(***************************************************************************)
\* today.weekday(), 0 = Monday; today.day, as far as the task tells them apart
Weekdays == 0..6
DaysOfMonth == {1, 2}

\* if day_of_month == 1: ... elif weekday == 0: ... else: ...
DayKind(weekday, day_of_month) ==
    IF day_of_month = 1 THEN "monthly"
    ELSE IF weekday = 0 THEN "weekly"
    ELSE "daily"

\* The scheduler starts the task on a day with that weekday and day of month.
validar_estado_cfdis_pendientes_beat(w, weekday, day_of_month) ==
    /\ vw[w].pc = "idle"
    /\ CanStart
    /\ vw' = [vw EXCEPT ![w] =
           [weekday |-> weekday, day_of_month |-> day_of_month] @@
           [IdleFrame EXCEPT !.kind = "sweep", !.pc = "sw_empresa",
                             !.tier = DayKind(weekday, day_of_month),
                             !.now = clock, !.empresas = SeqOfSet(Empresas)]]
    /\ UNCHANGED <<cfdiDocs, stateChecks, auditLog, clock, notSM>>

\* Documents of tenant 1 of every age band, one of them cancelled, and one
\* document of tenant 2.
SweepDocs ==
    << NewCfdiDocument(1, 1, 1, 10),
       NewCfdiDocument(1, 2, 1, 60),
       NewCfdiDocument(1, 3, 1, 200),
       NewCfdiDocument(1, 4, 1, 400),
       [NewCfdiDocument(1, 5, 1, 10) EXCEPT !.estado_sat = "Cancelado"],
       NewCfdiDocument(2, 6, 0, 60) >>

InitSweep ==
    /\ cfdiDocs = SweepDocs
    /\ stateChecks = <<>>
    /\ auditLog = <<>>
    /\ clock = 1
    /\ vw = [w \in Workers |-> IdleFrame]
    /\ requests = <<>>
    /\ packages = <<>>
    /\ queue = <<>>
    /\ sat = <<>>
    /\ tw = <<>>
    /\ hist = <<>>
    /\ odoo = <<>>
    /\ syncLogs = <<>>
    /\ connections = <<>>
    /\ ow = <<>>
    /\ NoCertificates
    /\ NoParses
    /\ NoSettings
    /\ NoCalls

NextSweep ==
    \E w \in {1} :
        \/ \E weekday \in Weekdays, day_of_month \in DaysOfMonth :
                validar_estado_cfdis_pendientes_beat(w, weekday, day_of_month)
        \/ validar_estado_cfdis_pendientes_load(w)
        \/ \E ans \in SatAnswers : validar_estado_cfdis_pendientes_call(w, ans)
        \/ validar_estado_cfdis_pendientes_error(w)
        \/ validar_estado_cfdis_pendientes_create(w)
        \/ validar_estado_cfdis_pendientes_save(w)
        \/ validar_estado_cfdis_pendientes_next(w)
        \/ validar_estado_cfdis_pendientes_return(w)
        \/ Return(w)

SpecSweep == InitSweep /\ [][NextSweep]_vars

\* The documents of a tenant due on a run of that day: cached as Vigente and
\* at most 30 days old, or at most 90 on a Monday, or at most 365 on a 1st.
Due(empresa, weekday, day_of_month) ==
    {d \in DOMAIN cfdiDocs :
        /\ cfdiDocs[d].company = empresa
        /\ cfdiDocs[d].estado_sat = "Vigente"
        /\ \/ cfdiDocs[d].edad <= 30
           \/ weekday = 0 /\ cfdiDocs[d].edad <= 90
           \/ day_of_month = 1 /\ cfdiDocs[d].edad <= 365}

\* The step in which the run of worker w turns to its next tenant: the
\* documents it will check are the tenant's due ones, each once.
SweepSelectsDue(w) ==
    LET f == vw[w]
        todo == vw'[w].todo
        due == Due(Head(f.empresas), f.weekday, f.day_of_month)
    IN  (f.kind = "sweep" /\ f.pc = "sw_empresa" /\ vw'[w].pc = "sw_next") =>
            /\ {todo[i].id : i \in DOMAIN todo} = due
            /\ Len(todo) = Cardinality(due)
            /\ Len(todo) <= SWEEP_BATCH

\* The step in which the run issues a check: it is for the next document of
\* the selection.
SweepChecksSelected(w) ==
    LET f == vw[w]
    IN  (f.kind = "sweep" /\ f.pc = "sw_next" /\ vw'[w].pc = "sw_create") =>
            /\ f.todo # <<>>
            /\ vw'[w].cfdi = Head(f.todo)
            /\ vw'[w].todo = Tail(f.todo)

SweepFollowsTiers == \A w \in Workers : SweepSelectsDue(w) /\ SweepChecksSelected(w)

Stored(f) == f.cfdi.id \in DOMAIN cfdiDocs

\* CfdiStateCheck.objects.create(document=cfdi, ...): the foreign key to a
\* deleted document raises IntegrityError, which post does not catch.
ValidarEstadoCfdiView_create_or_raise(w) ==
    IF Stored(vw[w])
    THEN ValidarEstadoCfdiView_create(w)
    ELSE /\ vw[w].pc = "sv_create"
         /\ vw' = [vw EXCEPT ![w].pc = "done", ![w].response = "IntegrityError"]
         /\ UNCHANGED <<cfdiDocs, stateChecks, auditLog, clock, notSM>>

\* cfdi.save(update_fields=[...]): no row is updated for a deleted document
\* and save raises DatabaseError, which post does not catch.
ValidarEstadoCfdiView_save_or_raise(w) ==
    IF Stored(vw[w])
    THEN ValidarEstadoCfdiView_save(w)
    ELSE /\ vw[w].pc = "sv_save"
         /\ vw' = [vw EXCEPT ![w].pc = "done", ![w].response = "DatabaseError"]
         /\ UNCHANGED <<cfdiDocs, stateChecks, auditLog, clock, notSM>>

\* Worker 1 runs checks; worker 2 serves the reset.
NextCheck ==
    \/ \E d \in DOMAIN cfdiDocs, ans \in SatAnswers : ValidarEstadoCfdiView_call(1, d, ans)
    \/ \E d \in DOMAIN cfdiDocs : ValidarEstadoCfdiView_error(1, d)
    \/ ValidarEstadoCfdiView_create_or_raise(1)
    \/ ValidarEstadoCfdiView_save_or_raise(1)
    \/ Return(1)
    \/ \E empresa \in Empresas, confirmar \in BOOLEAN : ResetCfdisView_post(2, empresa, confirmar)

SpecCheck == Init /\ [][NextCheck]_vars

\* C28: an operator-triggered single-document check never raises to the
\* caller: whatever fails (loading the credential, the authority call,
\* handling or persisting its answer), the caller gets a response: the
\* result, or an error status.
C28_CheckNeverRaises ==
    \A w \in Workers :
        (vw[w].kind = "single" /\ vw[w].pc = "done") => vw[w].response \in {"ok", "error"}

(***************************************************************************)
(* SpecSubmit: submissions alone, against an authority that can also       *)
(* answer a request without accepting it.                                  *)
(***************************************************************************)
\* The authority answers with a CodEstatus other than accepted and without
\* IdSolicitud: SATClient.solicitar_descarga returns the dict with
\* id_solicitud None (0 here), and the task stores the request.
solicitar_descarga_sat_unaccepted(w, t) ==
    LET empresa == t.package_id
    IN  /\ tw[w].pc = "idle"
        /\ t.task = "solicitar_descarga_sat"
        /\ t.retries > 0 => t \in BagToSet(queue)
        /\ Len(requests) < MaxRequests
        /\ requests' = Append(requests, NewDownloadRequest(empresa, 0))
        /\ queue' = IF t.retries = 0 THEN queue ELSE Dequeue(t)
        /\ hist' = [hist EXCEPT !.ready = Append(@, 0), !.downloaded = Append(@, 0),
                                !.triggered = Append(@, 0)]
        /\ UNCHANGED <<cfdiDocs, packages, sat, tw, acqUnch>>

NextSubmit ==
    \E w \in Workers, t \in SubmitTasks :
        \/ \E outcome \in SubmitOutcomes : solicitar_descarga_sat(w, t, outcome)
        \/ solicitar_descarga_sat_unaccepted(w, t)

SpecSubmit == InitAcq /\ [][NextSubmit]_vars

\* C29: submitBulkRequest either returns an external request id or fails
\* with an error, so that every DownloadRequest stored in status requested
\* carries a non-empty external request id.
C29_RequestedHasExternalId ==
    \A r \in DOMAIN requests :
        requests[r].status = "requested" => requests[r].request_id_sat # 0

(***************************************************************************)
(* SpecArchive: the fetch stage by what the authority hands back as the    *)
(* package: SATClient.descargar_paquete and the task's bookkeeping of the  *)
(* archive (file_size, NULL as -1).                                        *)
(***************************************************************************)
\* The Paquete of the answer: nothing, an empty string, a base64 text.
Paquetes == {None, "", "UEsDBA=="}

\* base64.b64decode on the strings of the model, as a sequence of bytes
b64decode(paquete) == IF paquete = "UEsDBA==" THEN <<80, 75, 3, 4>> ELSE <<>>

\* client.descargar_paquete(...) and what follows it.  len(paquete) raises
\* for None, which the client wraps in SATRequestError; every string is
\* decoded and returned, stored, and the package saved as downloaded.
descargar_paquete_sat_store(w, paquete) ==
    IF paquete = None
    THEN descargar_paquete_sat_download(w, "SATClientError")
    ELSE LET f == tw[w]
             zip_content == b64decode(paquete)
             downloaded == [f.package EXCEPT !.status = "downloaded", !.s3_zip_path = TRUE,
                                             !.file_size = Len(zip_content)]
         IN  /\ f.pc = "fetch"
             /\ packages' = Save(packages, downloaded)
             /\ queue' = Enqueue(queue, TaskMessage("procesar_paquete_xml", f.package.id, 0))
             /\ tw' = [tw EXCEPT ![w] = IdleTask]
             /\ UNCHANGED <<cfdiDocs, requests, sat, hist, acqUnch>>

InitArchive ==
    /\ cfdiDocs = <<>>
    /\ stateChecks = <<>>
    /\ auditLog = <<>>
    /\ clock = 1
    /\ vw = [w \in Workers |-> IdleFrame]
    /\ requests = << [NewDownloadRequest(1, 1) EXCEPT !.status = "ready"] >>
    /\ \E n \in 1..2 :
          /\ packages = [k \in 1..n |-> [file_size |-> -1] @@ NewDownloadPackage(1, k)]
          /\ queue = SetToBag({TaskMessage("descargar_paquete_sat", k, 0) : k \in 1..n})
          /\ hist = [polls |-> 1, faults |-> 0, budget |-> MAX_RETRIES + 1, ready |-> <<1>>,
                     fetch_failed |-> [k \in 1..n |-> 0],
                     created |-> [k \in 1..n |-> 0], errors |-> [k \in 1..n |-> {}],
                     downloaded |-> <<0>>, triggered |-> <<0>>, gave_up |-> {}]
    /\ sat = << [state |-> 3, enc |-> "enum"] >>
    /\ tw = [w \in Workers |-> IdleTask]
    /\ odoo = <<>>
    /\ syncLogs = <<>>
    /\ connections = <<>>
    /\ ow = <<>>
    /\ NoCertificates
    /\ NoParses
    /\ NoSettings
    /\ NoCalls

NextArchive ==
    \E w \in Workers :
        \/ \E t \in Tasks : descargar_paquete_sat_start(w, t)
        \/ \E paquete \in Paquetes : descargar_paquete_sat_store(w, paquete)

SpecArchive == InitArchive /\ [][NextArchive]_vars

\* C30: fetchPackage returns the decoded archive bytes only if they are
\* non-empty; an empty package answer makes it fail, so no package reaches
\* status downloaded with an empty archive.
C30_DownloadedArchiveNotEmpty ==
    \A p \in DOMAIN packages :
        packages[p].status = "downloaded" => packages[p].file_size > 0

\* ==========================================================================
\* The weekly acquisition: the beat entry and ejecutar_sincronizacion_semanal
\* ==========================================================================
\* SpecWeekly runs one week of the beat entry sincronizacion-semanal-sat-odoo.
\* The clock counts the local minutes since Monday 00:00; the entry fires on
\* every minute that crontab(minute='*/5') matches, and the task reads the
\* local time of that tick.

\* crontab(minute='*/5'): the minutes of an hour on which the beat fires.
TICK_MINUTES == 5

\* The task's tolerance around the configured minute.
MINUTE_WINDOW == 2

MinutesPerHour == 60
MinutesPerDay == 24 * MinutesPerHour
MinutesPerWeek == 7 * MinutesPerDay

\* The configurations of the tenant under observation.
SyncDays == {0, 6}
SyncHours == {4, 23}
SyncMinutes == 0..59

\* timezone.localtime() at a clock value: date, weekday, hour and minute.
localtime(t) ==
    [today |-> t \div MinutesPerDay,
     weekday |-> (t \div MinutesPerDay) % 7,
     hour |-> (t % MinutesPerDay) \div MinutesPerHour,
     minute |-> t % MinutesPerHour]

Abs(x) == IF x < 0 THEN -x ELSE x

NewEmpresaSyncSettings(company, enabled, day, hour, minute) ==
    [company |-> company, company_is_active |-> TRUE,
     weekly_sync_enabled |-> enabled, weekly_sync_day |-> day,
     weekly_sync_hour |-> hour, weekly_sync_minute |-> minute,
     weekly_sync_days_range |-> 7, last_weekly_sync_at |-> -1]

minute_match(now, setting) ==
    Abs(now.minute - setting.weekly_sync_minute) <= MINUTE_WINDOW

\* A setting the run does not skip.
Matches(now, setting) ==
    /\ setting.weekly_sync_enabled
    /\ setting.company_is_active
    /\ ~(\/ now.weekday # setting.weekly_sync_day
         \/ now.hour # setting.weekly_sync_hour
         \/ ~minute_match(now, setting))

\* solicitar_descarga_sat.delay(...) of the loop body.
WeeklyMessage(setting, now, tipo) ==
    [task |-> "solicitar_descarga_sat", empresa_id |-> setting.company,
     fecha_inicio |-> now.today - setting.weekly_sync_days_range,
     fecha_fin |-> now.today - 1, tipo |-> tipo, is_auto_generated |-> TRUE]

RECURSIVE WeeklyMessages(_, _, _)
WeeklyMessages(q, now, i) ==
    IF i > Len(settings) THEN q
    ELSE IF Matches(now, settings[i])
         THEN WeeklyMessages(Enqueue(Enqueue(q, WeeklyMessage(settings[i], now, "recibidos")),
                                     WeeklyMessage(settings[i], now, "emitidos")), now, i + 1)
         ELSE WeeklyMessages(q, now, i + 1)

\* One tick of the beat entry: the task runs over every setting.
ejecutar_sincronizacion_semanal ==
    LET now == localtime(clock)
    IN  /\ clock < MinutesPerWeek
        /\ clock % TICK_MINUTES = 0
        /\ queue' = WeeklyMessages(queue, now, 1)
        /\ settings' = [i \in DOMAIN settings |->
                           IF Matches(now, settings[i])
                           THEN [settings[i] EXCEPT !.last_weekly_sync_at = clock]
                           ELSE settings[i]]
        /\ clock' = clock + TICK_MINUTES
        /\ UNCHANGED <<cfdiDocs, stateChecks, auditLog, vw, requests, packages, sat, tw,
                       hist, odooVars, certVars, parserVars, rpc>>

InitWeekly ==
    /\ cfdiDocs = <<>>
    /\ stateChecks = <<>>
    /\ auditLog = <<>>
    /\ clock = 0
    /\ vw = [w \in Workers |-> IdleFrame]
    /\ requests = <<>>
    /\ packages = <<>>
    /\ queue = EmptyBag
    /\ sat = <<>>
    /\ tw = [w \in Workers |-> IdleTask]
    /\ hist = <<>>
    /\ odoo = <<>>
    /\ syncLogs = <<>>
    /\ connections = <<>>
    /\ ow = <<>>
    /\ NoCertificates
    /\ NoParses
    /\ NoCalls
    /\ \E day \in SyncDays, hour \in SyncHours, minute \in SyncMinutes :
          settings = <<NewEmpresaSyncSettings(1, TRUE, day, hour, minute),
                       NewEmpresaSyncSettings(2, FALSE, day, hour, minute)>>

NextWeekly == ejecutar_sincronizacion_semanal

SpecWeekly == InitWeekly /\ [][NextWeekly]_vars

\* The acquisitions queued for a tenant so far: one per pair of submissions.
Fired(company) ==
    {m \in BagToSet(queue) : m.empresa_id = company /\ m.tipo = "recibidos"}

FiredTimes(company) ==
    BagCardinality([m \in Fired(company) |-> queue[m]])

\* C31: once the week is over, every tenant with weekly acquisition enabled
\* has had its acquisition fired exactly once, on the configured local day
\* and hour, for every configured minute from 0 to 59.
C31_FiresOncePerWeek ==
    clock = MinutesPerWeek =>
        \A i \in DOMAIN settings :
            (settings[i].weekly_sync_enabled /\ settings[i].company_is_active) =>
                /\ FiredTimes(settings[i].company) = 1
                /\ settings[i].last_weekly_sync_at >= 0
                /\ localtime(settings[i].last_weekly_sync_at).weekday = settings[i].weekly_sync_day
                /\ localtime(settings[i].last_weekly_sync_at).hour = settings[i].weekly_sync_hour

\* ==========================================================================
\* Progress of a request: the poll and the worker tasks running for ever
\* ==========================================================================
\* SpecLive follows one persisted request for as long as the beat keeps
\* starting verificar_solicitudes_pendientes and the workers keep taking the
\* queued tasks.  A poll run is one step here (a run ends before the next one
\* is due), and it is not counted, so that the runs can go on for ever.

\* The poll is not started while this many task messages wait in the broker.
MaxQueue == 2

\* for pkg_id in result.get('paquetes', []): get_or_create(...), as one step:
\* the tables after the loop, or raised when a lookup finds several rows.
RECURSIVE get_or_create_all(_, _, _)
get_or_create_all(st, request, ids) ==
    IF ids = <<>> THEN st
    ELSE LET found == {p \in DOMAIN st.packages :
                          /\ st.packages[p].request = request
                          /\ st.packages[p].package_id_sat = Head(ids)}
         IN  IF found = {}
             THEN get_or_create_all(
                      [st EXCEPT !.packages = Append(@, NewDownloadPackage(request, Head(ids))),
                                 !.hist = [@ EXCEPT !.fetch_failed = Append(@, 0),
                                                    !.created = Append(@, 0),
                                                    !.errors = Append(@, {})]],
                      request, Tail(ids))
             ELSE IF Cardinality(found) = 1 THEN get_or_create_all(st, request, Tail(ids))
             ELSE [st EXCEPT !.raised = TRUE]

\* The body of `for solicitud in pendientes`, for one request.
PollRequest(st, solicitud) ==
    LET result == verificar_solicitud(solicitud.request_id_sat)
        estado == result.estado
    IN  IF estado \in ESTADOS_TERMINADA THEN
            LET ready == [st EXCEPT !.requests =
                             Save(@, [solicitud EXCEPT !.status = "ready"])]
                made == get_or_create_all(ready, solicitud.id, result.paquetes)
                pending == {p \in DOMAIN made.packages :
                               /\ made.packages[p].request = solicitud.id
                               /\ made.packages[p].status = "pending"}
            IN  IF made.raised THEN [made EXCEPT !.raised = FALSE]
                ELSE [made EXCEPT !.queue = @ (+) SetToBag(
                         {TaskMessage("descargar_paquete_sat", p, 0) : p \in pending})]
        ELSE IF estado \in ESTADOS_ERROR \cup ESTADOS_VENCIDA THEN
            [st EXCEPT !.requests = Save(@, [solicitud EXCEPT !.status = "failed"])]
        ELSE st

RECURSIVE PollRequests(_, _)
PollRequests(st, todo) ==
    IF todo = <<>> THEN st
    ELSE PollRequests(PollRequest(st, Head(todo)), Tail(todo))

\* One whole run of verificar_solicitudes_pendientes.
verificar_solicitudes_pendientes(w) ==
    LET st == PollRequests([requests |-> requests, packages |-> packages, queue |-> queue,
                            hist |-> hist, raised |-> FALSE],
                           Pendientes(Len(requests)))
    IN  /\ tw[w].pc = "idle"
        /\ BagCardinality(queue) < MaxQueue
        /\ requests' = st.requests
        /\ packages' = st.packages
        /\ queue' = st.queue
        /\ hist' = st.hist
        /\ UNCHANGED <<cfdiDocs, sat, tw, acqUnch>>

\* One request, accepted by the authority and persisted; the failures allowed
\* are as many as one package needs to use up its attempts.
InitLive ==
    /\ cfdiDocs = <<>>
    /\ stateChecks = <<>>
    /\ auditLog = <<>>
    /\ clock = 1
    /\ vw = [w \in Workers |-> IdleFrame]
    /\ requests = << NewDownloadRequest(1, 1) >>
    /\ packages = <<>>
    /\ queue = EmptyBag
    /\ sat = << [state |-> 1, enc |-> "enum"] >>
    /\ tw = [w \in Workers |-> IdleTask]
    /\ hist = [polls |-> 0, faults |-> 0, budget |-> MAX_RETRIES + 1, ready |-> <<0>>,
               fetch_failed |-> <<>>,
               created |-> <<>>, errors |-> <<>>, downloaded |-> <<0>>, triggered |-> <<0>>,
               gave_up |-> {}]
    /\ odoo = <<>>
    /\ syncLogs = <<>>
    /\ connections = <<>>
    /\ ow = <<>>
    /\ NoCertificates
    /\ NoParses
    /\ NoSettings
    /\ NoCalls

\* The authority reports a terminal state for a request it was working on.
AuthorityReports ==
    \E id \in DOMAIN sat, estado \in {3, 5} :
        sat[id].state \in {1, 2} /\ Sat_advance(id, estado)

\* A finished request expires at the authority.
AuthorityExpires == \E id \in DOMAIN sat : sat[id].state = 3 /\ Sat_advance(id, 6)

PollRuns == \E w \in Pollers : verificar_solicitudes_pendientes(w)

WorkerRuns ==
    \E w \in Workers :
        \/ \E t \in Tasks : descargar_paquete_sat_start(w, t)
        \/ \E outcome \in FetchOutcomes : descargar_paquete_sat_download(w, outcome)
        \/ \E t \in Tasks : procesar_paquete_xml_start(w, t)
        \/ parse_and_save_check(w)
        \/ parse_and_save_insert(w)
        \/ procesar_paquete_xml_complete(w)
        \/ procesar_paquete_xml_return(w)

NextLive == AuthorityReports \/ AuthorityExpires \/ PollRuns \/ WorkerRuns

\* The beat starts the poll again and again, the workers take what is queued,
\* and the authority ends its work on the request; nothing obliges the
\* authority to let a finished request expire.
SpecLive ==
    /\ InitLive
    /\ [][NextLive]_vars
    /\ WF_vars(AuthorityReports)
    /\ WF_vars(PollRuns)
    /\ WF_vars(WorkerRuns)

RequestsSettled ==
    \A r \in DOMAIN requests : requests[r].status \in {"downloaded", "failed"}

\* C32: every persisted request eventually reaches downloaded or failed when
\* the poll and the worker tasks keep running and the authority eventually
\* reports a terminal state, whatever becomes of its packages.
C32_RequestEventuallySettles == (requests # <<>>) ~> RequestsSettled

\* The fetches of package p that are queued (first deliveries and retries
\* waiting for their countdown) or running on a worker.
FetchesInFlight(p) ==
    LET queued == {t \in BagToSet(queue) : t.task = "descargar_paquete_sat" /\ t.package_id = p}
    IN  BagCardinality([t \in queued |-> queue[t]])
        + Cardinality({w \in Workers : tw[w].pc = "fetch" /\ tw[w].package.id = p})

\* C33: at any time at most one fetch of a package is queued, in progress
\* or awaiting retry, however many poll runs pass over its ready request.
C33_OneFetchPerPackage == \A p \in DOMAIN packages : FetchesInFlight(p) <= 1

\* The invoices the external system holds for a document of the connection's
\* company.
InvoicesOf(cfdi_uuid) ==
    {m \in DOMAIN odoo.moves : /\ odoo.moves[m].ref = cfdi_uuid
                               /\ odoo.moves[m].company_id = connections.odoo_company_id}

\* C34: after any sequence of reconciliation attempts for a document on one
\* connection, attempts that fail partway included, the external system
\* holds at most one invoice for that document.
C34_AtMostOneInvoice == \A cfdi_uuid \in CfdiUuids : Cardinality(InvoicesOf(cfdi_uuid)) <= 1

\* ==========================================================================
\* The three verification workflows side by side
\* ==========================================================================
\* SpecOverlap: the daily sweep runs on worker 1 while an operator's requests
\* (the single-document check and the per-request bulk check) are served on
\* worker 2.
NextOverlap ==
    \/ \E day \in SweepDays : validar_estado_cfdis_pendientes_start(1, day)
    \/ validar_estado_cfdis_pendientes_load(1)
    \/ \E ans \in SatAnswers : validar_estado_cfdis_pendientes_call(1, ans)
    \/ validar_estado_cfdis_pendientes_error(1)
    \/ validar_estado_cfdis_pendientes_create(1)
    \/ validar_estado_cfdis_pendientes_save(1)
    \/ validar_estado_cfdis_pendientes_next(1)
    \/ validar_estado_cfdis_pendientes_return(1)
    \/ \E d \in DOMAIN cfdiDocs, ans \in SatAnswers : ValidarEstadoCfdiView_call(2, d, ans)
    \/ \E d \in DOMAIN cfdiDocs : ValidarEstadoCfdiView_error(2, d)
    \/ ValidarEstadoCfdiView_create(2)
    \/ ValidarEstadoCfdiView_save(2)
    \/ \E r \in Requests : ValidarTodosCfdiView_load(2, r)
    \/ \E ans \in SatAnswers : ValidarTodosCfdiView_call(2, ans)
    \/ ValidarTodosCfdiView_error(2)
    \/ ValidarTodosCfdiView_create(2)
    \/ ValidarTodosCfdiView_save(2)
    \/ ValidarTodosCfdiView_return(2)
    \/ \E w \in Workers : Return(w)

SpecOverlap == Init /\ [][NextOverlap]_vars

\* The workers that hold the authority's answer for document d and have not
\* yet finished writing its state check and its cache.
Checking(d) ==
    {w \in Workers : /\ vw[w].cfdi.id = d
                     /\ vw[w].pc \in {"sv_create", "sv_save", "bv_create", "bv_save",
                                      "sw_create", "sw_save"}}

\* C35: at any time at most one status-check-then-cache-write sequence is in
\* progress for a document, whichever workflows are running.
C35_OneCheckAtATime == \A d \in DOMAIN cfdiDocs : Cardinality(Checking(d)) <= 1

\* C36: the state checks of a document form a chain: in the order of their
\* creation each row's estado_anterior is the estado_sat of the row before
\* it, and a row's es_cambio is true exactly when its estado_anterior and
\* its estado_sat differ.
C36_ChecksFormChain ==
    \A d \in DOMAIN cfdiDocs :
        LET rows == ChecksOf(d)
        IN  /\ \A i \in 2..Len(rows) :
                   stateChecks[rows[i]].estado_anterior = stateChecks[rows[i - 1]].estado_sat
            /\ \A i \in 1..Len(rows) :
                   stateChecks[rows[i]].es_cambio <=>
                       (stateChecks[rows[i]].estado_anterior # stateChecks[rows[i]].estado_sat)

\* A step leaves every cancellation timestamp that is set as it is.
CancellationDateKept ==
    \A d \in DOMAIN cfdiDocs :
        cfdiDocs[d].fecha_cancelacion # 0 =>
            cfdiDocs'[d].fecha_cancelacion = cfdiDocs[d].fecha_cancelacion

\* C37: a document's fecha_cancelacion is set when the document is first
\* found cancelled and never changes afterwards, however many later
\* verifications report cancelled and whichever workflow performs them.
C37_CancellationDateSetOnce == [][CancellationDateKept]_vars

\* ==========================================================================
\* Two tenants: propagating a status change to the external system
\* ==========================================================================
\* SpecTenant: each tenant has one connection to an external system of its
\* own, which holds, for each document identifier, no invoice ("absent") or an
\* invoice whose l10n_mx_edi.document carries a sat_state.  Tenant 1 holds
\* document 1; tenant 2 holds a document with the same identifier or another.

SAT_STATE_DJANGO_TO_ODOO(django_state) ==
    CASE django_state = "Vigente" -> "valid"
      [] django_state = "Cancelado" -> "cancelled"
      [] django_state = "No Encontrado" -> "not_found"
      [] OTHER -> "not_defined"

NewOdooConnection(empresa, status) ==
    [empresa |-> empresa, status |-> status, odoo_company_id |-> 1]

NoOutcome == [status |-> None, message |-> None, sat_state |-> None]

\* The task on tables docs and conns and external systems ext: what it
\* returns (or raises), whose document it read, the connection it used, and
\* what it leaves in the external systems and in the sync log.
sync_status(docs, conns, ext, cfdi_uuid, nuevo_estado, fault) ==
    LET found == {d \in DOMAIN docs : docs[d].uuid = cfdi_uuid}
        none == [result |-> NoOutcome, company |-> 0, connection |-> 0, odoo |-> ext, logs |-> <<>>]
    IN  IF found = {} THEN
            [none EXCEPT !.result = [NoOutcome EXCEPT !.status = "error",
                                                      !.message = "CFDI no encontrado"]]
        ELSE IF Cardinality(found) > 1 THEN
            [none EXCEPT !.result = [NoOutcome EXCEPT !.status = "raises",
                                                      !.message = "MultipleObjectsReturned"]]
        ELSE
            LET cfdi == docs[CHOOSE d \in found : TRUE]
                active == {c \in DOMAIN conns : /\ conns[c].empresa = cfdi.company
                                                /\ conns[c].status = "active"}
                read == [none EXCEPT !.company = cfdi.company]
            IN  IF active = {} THEN
                    [read EXCEPT !.result = [NoOutcome EXCEPT !.status = "skipped",
                                                              !.message = "Sin conexion Odoo"]]
                ELSE
                    LET c == Min(active)
                        odoo_sat_state == SAT_STATE_DJANGO_TO_ODOO(nuevo_estado)
                        used == [read EXCEPT !.connection = c]
                    IN  IF fault THEN
                            [used EXCEPT !.result = [NoOutcome EXCEPT !.status = "error",
                                                                      !.message = "OdooClientError"],
                                         !.logs = << [NewSyncLog(cfdi_uuid) EXCEPT
                                                         !.status = "error"] >>]
                        ELSE IF ext[c][cfdi_uuid] = "absent" THEN
                            [used EXCEPT !.result = [NoOutcome EXCEPT !.status = "skipped",
                                                                      !.message = "No existe en Odoo"]]
                        ELSE
                            [used EXCEPT !.result = [status |-> "success", message |-> None,
                                                     sat_state |-> odoo_sat_state],
                                         !.odoo = [ext EXCEPT ![c][cfdi_uuid] = odoo_sat_state],
                                         !.logs = << [NewSyncLog(cfdi_uuid) EXCEPT
                                                         !.status = "success", !.odoo_invoice_id = c,
                                                         !.action_taken = "status_updated"] >>]

\* The rows of a table that belong to a tenant.
OfTenant(table, empresa, field) ==
    [k \in {x \in DOMAIN table : table[x][field] = empresa} |-> table[k]]

\* The task, started for the document cfdi_uuid of tenant empresa whose status
\* changed; the task itself is given the identifier and the status only.  The
\* frame keeps, next to the outcome, the outcome the same call has on the
\* tenant's own rows alone.
sync_cfdi_status_to_odoo(empresa, cfdi_uuid, nuevo_estado, fault) ==
    LET out == sync_status(cfdiDocs, connections, odoo, cfdi_uuid, nuevo_estado, fault)
        own == OfTenant(connections, empresa, "empresa")
        alone == sync_status(OfTenant(cfdiDocs, empresa, "company"), own,
                             [c \in DOMAIN own |-> odoo[c]], cfdi_uuid, nuevo_estado, fault)
    IN  /\ \E d \in DOMAIN cfdiDocs : cfdiDocs[d].company = empresa /\ cfdiDocs[d].uuid = cfdi_uuid
        /\ Len(syncLogs) < MaxSyncs
        /\ odoo' = out.odoo
        /\ syncLogs' = syncLogs \o out.logs
        /\ ow' = [ow EXCEPT ![1] = [pc |-> "done", empresa |-> empresa, cfdi_uuid |-> cfdi_uuid,
                                    result |-> out.result, company |-> out.company,
                                    connection |-> out.connection, alone |-> alone.result]]
        /\ UNCHANGED <<connections, odooUnch>>

\* The operator's single-document check of tenant empresa, up to its lookup:
\* get_object_or_404(CfdiDocument, uuid=uuid, company=self.empresa).
ValidarEstadoCfdiView_get(empresa, uuid) ==
    LET found == {d \in DOMAIN cfdiDocs : /\ cfdiDocs[d].uuid = uuid
                                          /\ cfdiDocs[d].company = empresa}
    IN  /\ ow[1].pc \in {"idle", "done"}
        /\ ow' = [ow EXCEPT ![1] =
                    [pc |-> "looked", empresa |-> empresa, cfdi_uuid |-> uuid,
                     result |-> [NoOutcome EXCEPT !.status = IF found = {} THEN "404" ELSE "found"],
                     company |-> IF found = {} THEN 0 ELSE empresa,
                     connection |-> 0, alone |-> NoOutcome]]
        /\ UNCHANGED <<odoo, syncLogs, connections, odooUnch>>

ConnectionStatuses == {"active", "error"}
ExternalStates == {"absent", "valid"}

InitTenant ==
    /\ stateChecks = <<>>
    /\ auditLog = <<>>
    /\ clock = 1
    /\ vw = [w \in Workers |-> IdleFrame]
    /\ requests = <<>>
    /\ packages = <<>>
    /\ queue = EmptyBag
    /\ sat = <<>>
    /\ tw = [w \in Workers |-> IdleTask]
    /\ hist = <<>>
    /\ syncLogs = <<>>
    /\ ow = [w \in {1} |-> [pc |-> "idle", empresa |-> 0, cfdi_uuid |-> 0, result |-> NoOutcome,
                            company |-> 0, connection |-> 0, alone |-> NoOutcome]]
    /\ NoCertificates
    /\ NoParses
    /\ NoSettings
    /\ NoCalls
    /\ \E uuid \in CfdiUuids :
          cfdiDocs = << NewCfdiDocument(1, 1, 0, 10), NewCfdiDocument(2, uuid, 0, 10) >>
    /\ \E s1, s2 \in ConnectionStatuses :
          connections = << NewOdooConnection(1, s1), NewOdooConnection(2, s2) >>
    /\ odoo \in [1..2 -> [CfdiUuids -> ExternalStates]]

NextTenant ==
    \/ \E empresa \in Empresas, cfdi_uuid \in CfdiUuids,
          nuevo_estado \in {"Vigente", "Cancelado"}, fault \in BOOLEAN :
            sync_cfdi_status_to_odoo(empresa, cfdi_uuid, nuevo_estado, fault)
    \/ \E empresa \in Empresas, uuid \in CfdiUuids : ValidarEstadoCfdiView_get(empresa, uuid)

SpecTenant == InitTenant /\ [][NextTenant]_vars

\* C38: an operation addressed to a document of one tenant by its identifier
\* has the outcome it has on that tenant's rows alone, whether or not another
\* tenant holds a document with the same identifier, and it reads no other
\* tenant's record and uses no other tenant's connection.
C38_TenantIsolation ==
    ow[1].pc = "done" =>
        /\ ow[1].result = ow[1].alone
        /\ ow[1].company \in {0, ow[1].empresa}
        /\ ow[1].connection # 0 => connections[ow[1].connection].empresa = ow[1].empresa

\* ==========================================================================
\* Batch reconciliation run again and again
\* ==========================================================================
\* SpecRuns: sync_new_cfdis_to_odoo is started for a tenant for ever (after
\* every completed download and by hand).  A run is one step.  So that the
\* runs can go on for ever the sync log keeps one row per content (the task
\* only asks it for the uuids with a success row) and last_sync is a flag.

\* One document more than a run takes.
BatchDocuments == BATCH_LIMIT + 1

\* A stored document; s3_xml_path says whether its XML can be read.
StoredDocument(uuid, s3_xml_path) ==
    [s3_xml_path |-> s3_xml_path] @@ SyncDocument(uuid)

\* What service.sync_cfdi_to_odoo returns for document d of the batch.
Reconcile(d, fault) ==
    LET existing_invoice == find_invoice_by_uuid_extended(cfdiDocs[d].uuid,
                                                          connections.odoo_company_id)
    IN  IF fault THEN "error"
        ELSE IF existing_invoice # 0 THEN "exists"
        ELSE IF ~cfdiDocs[d].s3_xml_path THEN "error"
        ELSE "created"

\* The rows of log that table does not hold yet, in their order.
NewRows(table, log) == SelectSeq(log, LAMBDA row : \A i \in DOMAIN table : table[i] # row)

\* The members of a set of primary keys in ascending order.
Ascending(S) ==
    [i \in 1..Cardinality(S) |-> CHOOSE d \in S : Cardinality({e \in S : e < d}) = i - 1]

\* The documents a run selects: cfdis_qs[:50] of the tenant's documents
\* without a success row in the log.
Selected(empresa) ==
    Take(Ascending({d \in DOMAIN cfdiDocs :
                       /\ cfdiDocs[d].company = empresa
                       /\ cfdiDocs[d].uuid \notin synced_uuids}), BATCH_LIMIT)

\* The run over the selected documents cfdis, status[i] being what the call
\* for cfdis[i] returned.
RunOver(cfdis, status, fault) ==
    \E created \in {SelectSeq([i \in DOMAIN cfdis |-> i], LAMBDA i : status[i] = "created")} :
        LET invoice_id(i) ==
                IF status[i] = "exists"
                THEN find_invoice_by_uuid_extended(cfdiDocs[cfdis[i]].uuid,
                                                   connections.odoo_company_id)
                ELSE IF status[i] = "created"
                THEN Len(odoo.moves) + Cardinality({k \in DOMAIN created : created[k] <= i})
                ELSE 0
            row(i) == [NewSyncLog(cfdiDocs[cfdis[i]].uuid) EXCEPT
                           !.status = IF status[i] = "error" THEN "error" ELSE "success",
                           !.odoo_invoice_id = invoice_id(i),
                           !.action_taken = IF status[i] = "created" THEN "created"
                                            ELSE IF status[i] = "exists" THEN "verified"
                                            ELSE None]
            uuid(k) == cfdiDocs[cfdis[created[k]]].uuid
        IN  /\ odoo' = [odoo EXCEPT
                   !.partners = @ \cup {Vat(uuid(k)) : k \in DOMAIN created},
                   !.moves = @ \o [k \in DOMAIN created |->
                                      [company_id |-> connections.odoo_company_id,
                                       ref |-> uuid(k), posted |-> TRUE]],
                   !.attachments = @ \o [k \in DOMAIN created |->
                                      [res_id |-> Len(odoo.moves) + k, cfdi_uuid |-> uuid(k)]],
                   !.documents = @ \o [k \in DOMAIN created |->
                                      [move_id |-> Len(odoo.moves) + k,
                                       attachment_id |-> Len(odoo.attachments) + k]]]
            /\ \E log \in {[i \in DOMAIN cfdis |-> row(i)]} :
                   syncLogs' = syncLogs \o NewRows(syncLogs, log)
            /\ cfdiDocs' = [d \in DOMAIN cfdiDocs |->
                               IF \E i \in DOMAIN cfdis :
                                      cfdis[i] = d /\ status[i] \in {"created", "exists"}
                               THEN [cfdiDocs[d] EXCEPT !.creado_en_sistema = TRUE]
                               ELSE cfdiDocs[d]]
            /\ connections' = [connections EXCEPT
                   !.last_sync = 1,
                   !.last_error = @ \/ \E i \in DOMAIN cfdis : status[i] = "error",
                   !.faults = IF fault # 0 THEN @ + 1 ELSE @]
            /\ ow' = [ow EXCEPT ![0].attempted = @ \cup {cfdis[i] : i \in DOMAIN cfdis},
                                ![0].status = "completed"]

\* One whole run for tenant empresa; with fault = 1 the call for the first
\* document of the batch meets a failure of the external system.
sync_new_cfdis_to_odoo(empresa, fault) ==
    LET connection == connections.empresa = empresa /\ connections.status = "active"
                         /\ connections.auto_sync_enabled
    IN  /\ ow[0].pc = "idle"
        /\ fault # 0 => connection /\ OdooFaults < MaxOdooFaults
        /\ IF connection THEN
                \E cfdis \in {Selected(empresa)} :
                    /\ fault <= Len(cfdis)
                    /\ \E status \in {[i \in DOMAIN cfdis |-> Reconcile(cfdis[i], i = fault)]} :
                          RunOver(cfdis, status, fault)
           ELSE /\ ow' = [ow EXCEPT ![0].status = "skipped"]
                /\ UNCHANGED <<odoo, syncLogs, cfdiDocs, connections>>
        /\ UNCHANGED <<stateChecks, auditLog, clock, vw, acqVars, certVars, parserVars,
                       settings, rpc>>

\* The tenant's documents, newest first; the XML of the first n of them
\* cannot be read.
InitRuns ==
    /\ \E n \in 0..BatchDocuments :
          cfdiDocs = [d \in 1..BatchDocuments |-> StoredDocument(d, d > n)]
    /\ stateChecks = <<>>
    /\ auditLog = <<>>
    /\ clock = 1
    /\ vw = [w \in Workers |-> IdleFrame]
    /\ requests = <<>>
    /\ packages = <<>>
    /\ queue = EmptyBag
    /\ sat = <<>>
    /\ tw = [w \in Workers |-> IdleTask]
    /\ hist = <<>>
    /\ odoo = [moves |-> <<>>, attachments |-> <<>>, documents |-> <<>>, partners |-> {}]
    /\ syncLogs = <<>>
    /\ connections = [odoo_company_id |-> 1, last_error |-> FALSE, last_sync |-> 0, faults |-> 0,
                      empresa |-> 1, status |-> "active", auto_sync_enabled |-> TRUE]
    /\ ow = [w \in {0} |-> [pc |-> "idle", status |-> None, attempted |-> {}]]
    /\ NoCertificates
    /\ NoParses
    /\ NoSettings
    /\ NoCalls

RunsForTenant == \E fault \in 0..1 : sync_new_cfdis_to_odoo(1, fault)

NextRuns == RunsForTenant

\* The task is started for the tenant again and again.
SpecRuns == InitRuns /\ [][NextRuns]_vars /\ WF_vars(RunsForTenant)

AllAttempted ==
    \A d \in DOMAIN cfdiDocs :
        (cfdiDocs[d].company = connections.empresa) => d \in ow[0].attempted

\* C39: every document of a tenant with an active auto-sync connection is
\* eventually attempted by batch reconciliation: over repeated runs the cap
\* on the documents of a run passes no unreconciled document over for ever.
C39_EveryDocumentAttempted == <>AllAttempted

\* ==========================================================================
\* retry_on_error: the retrying decorator of the XML-RPC client
\* ==========================================================================
\* SpecRetry: one caller makes calls through a wrapper made by
\* retry_on_error(max_retries, delay).  rpc[c] holds the wrapper's locals and
\* what it has done: the outcomes of its invocations of the wrapped operation
\* and the delays it has slept.

\* The decorator's parameters: the client uses max_retries 3 (authenticate,
\* and the default) and 2 (execute_kw) with the default delay of one second.
RetryLimits == 0..3
Delays == {1, 2}

\* except (ConnectionError, TimeoutError, xmlrpc.client.Error)
TransportErrors == {"ConnectionError", "TimeoutError", "xmlrpc.client.Error"}

\* What one invocation of the wrapped operation does: it returns, or raises
\* a transport error, or raises something else (execute_kw and authenticate
\* turn an xmlrpc Fault into OdooClientError or OdooAuthenticationError).
CallOutcomes ==
    {"ok"} \cup TransportErrors \cup {"OdooClientError", "OdooAuthenticationError", "Exception"}

IdleCall ==
    [pc |-> "idle", max_retries |-> 0, delay |-> 0, attempt |-> 0, last_error |-> None,
     outcomes |-> <<>>, sleeps |-> <<>>, result |-> None]

\* A wait that does not grow with the attempt.
Backoff_flat(delay, attempt) == delay

\* time.sleep(delay * (attempt + 1))
Backoff(delay, attempt) == delay * (attempt + 1)

\* wrapper(*args, **kwargs) is entered; range(max_retries) may be empty.
retry_on_error_call(c, max_retries, delay) ==
    /\ rpc[c].pc \in {"idle", "returned", "raised"}
    /\ rpc' = [rpc EXCEPT ![c] =
                  IF max_retries = 0
                  THEN [IdleCall EXCEPT !.pc = "raised", !.delay = delay,
                                        !.result = "OdooConnectionError"]
                  ELSE [IdleCall EXCEPT !.pc = "attempt", !.max_retries = max_retries,
                                        !.delay = delay]]
    /\ UNCHANGED <<smVars, acqVars, odooVars, certVars, parserVars, settings>>

\* One pass of the loop: func is invoked and returns or raises.
retry_on_error_attempt(c, outcome) ==
    LET f == rpc[c]
        called == [f EXCEPT !.outcomes = Append(@, outcome)]
    IN  /\ f.pc = "attempt"
        /\ rpc' = [rpc EXCEPT ![c] =
              IF outcome = "ok" THEN [called EXCEPT !.pc = "returned", !.result = "ok"]
              ELSE IF outcome \in TransportErrors THEN
                  IF f.attempt < f.max_retries - 1
                  THEN [called EXCEPT !.last_error = outcome,
                                      !.sleeps = Append(@, Backoff(f.delay, f.attempt)),
                                      !.attempt = @ + 1]
                  ELSE [called EXCEPT !.last_error = outcome, !.pc = "raised",
                                      !.result = "OdooConnectionError"]
              ELSE [called EXCEPT !.pc = "raised", !.result = outcome]]
        /\ UNCHANGED <<smVars, acqVars, odooVars, certVars, parserVars, settings>>

InitRetry ==
    /\ cfdiDocs = <<>>
    /\ stateChecks = <<>>
    /\ auditLog = <<>>
    /\ clock = 1
    /\ vw = [w \in Workers |-> IdleFrame]
    /\ requests = <<>>
    /\ packages = <<>>
    /\ queue = EmptyBag
    /\ sat = <<>>
    /\ tw = [w \in Workers |-> IdleTask]
    /\ hist = <<>>
    /\ odoo = <<>>
    /\ syncLogs = <<>>
    /\ connections = <<>>
    /\ ow = <<>>
    /\ NoCertificates
    /\ NoParses
    /\ NoSettings
    /\ rpc = [c \in {1} |-> IdleCall]

NextRetry ==
    \/ \E max_retries \in RetryLimits, delay \in Delays : retry_on_error_call(1, max_retries, delay)
    \/ \E outcome \in CallOutcomes : retry_on_error_attempt(1, outcome)

SpecRetry == InitRetry /\ [][NextRetry]_vars

\* The invocations of a call that were followed by another invocation.
Retried(f) ==
    IF f.pc = "attempt" THEN Len(f.outcomes)
    ELSE IF f.outcomes = <<>> THEN 0 ELSE Len(f.outcomes) - 1

\* C40: a call through the retrying decorator invokes the wrapped operation
\* at most max_retries times, waits delay times the attempt number between
\* consecutive attempts, surfaces a connection error after the last failed
\* attempt instead of retrying further, and surfaces an error that is not a
\* transport error without any retry.
C40_RetryIsBounded ==
    \A c \in DOMAIN rpc :
        LET f == rpc[c]
            n == Len(f.outcomes)
        IN  /\ n <= f.max_retries
            /\ \A i \in 1..Retried(f) : f.outcomes[i] \in TransportErrors
            /\ f.sleeps = [i \in 1..Retried(f) |-> f.delay * i]
            /\ f.pc = "returned" => f.outcomes[n] = "ok" /\ f.result = "ok"
            /\ f.pc = "raised" =>
                  IF n > 0 /\ f.outcomes[n] \notin TransportErrors
                  THEN f.result = f.outcomes[n]
                  ELSE f.result = "OdooConnectionError" /\ n = f.max_retries

\* A call that used up its three attempts on transport errors, waited between
\* them and surfaced the connection error.
C40_Witness ==
    \E c \in DOMAIN rpc :
        /\ rpc[c].pc = "raised" /\ rpc[c].result = "OdooConnectionError"
        /\ Len(rpc[c].outcomes) = 3 /\ rpc[c].delay = 2
        /\ rpc[c].sleeps = <<2, 4>>

====
